---------------------------- MODULE Spec2Model ----------------------------
(***************************************************************************)
(* Model of the bfp platform (src/pltform): the Analysis engine            *)
(* (analysis.py), the scoring engine (pool.py compute_scores), the pool    *)
(* tabulator and its week report (pool.py Pool, SubPool), the game table  *)
(* (game.py), a swami with its stored picks (swami/base.py,                *)
(* swami/ext_data.py) and the cyber swamis (swami/cyber_basic.py).         *)
(*                                                                         *)
(* Conventions.                                                            *)
(*  - A Python value that may be None is a sequence: <<>> is None and      *)
(*    <<v>> is v.  A nullable Team is a string, NoTeam standing for None.  *)
(*  - pt_spread is a FloatField with half-point granularity; the model     *)
(*    keeps it in half points (pt_spread -3.0 is <<-6>>), and the          *)
(*    vs-spread margins in half points too.                                *)
(*  - datetimes are integers in chronological order.                       *)
(***************************************************************************)
EXTENDS Integers, Sequences, FiniteSets, TLC

VARIABLES
    \* Analysis (analysis.py, class Analysis)
    game_ctx,       \* id of the game being analyzed
    team_filters,   \* [team of the context -> sequence of filters]
    team_stats,     \* [team of the context -> <<>> or <<AnlyStats>>]
    frozen,         \* BOOLEAN
    \* observation of the Analysis calls
    anly_last,      \* the last call on the Analysis and how it ended
    stats_called,   \* get_stats has run for a team of the context
    n_queries,      \* number of compute_stats invocations (queries executed)
    n_adds,         \* number of add_filter and add_team_filter calls made
    \* scoring engine (pool.py, compute_scores)
    sc_game,        \* the game handed to compute_scores
    sc_pick,        \* the pick handed to compute_scores
    sc_scores,      \* <<>> before the call, <<[su, ats]>> after it
    \* Pool (pool.py, class Pool)
    pool_season,    \* the season of the pool
    swami_kind,     \* [swami -> the kind of picks stored for it]
    week_games,     \* dict week -> list of games
    game_picks,     \* dict game -> dict swami -> pick
    week_picks,     \* dict week -> dict swami -> dict game -> pick
    week_scores,    \* dict week -> dict swami -> <<su, ats>>
    swami_scores,   \* dict swami -> dict week -> <<su, ats>>
    tot_scores,     \* dict swami -> <<su, ats>>
    pool_log,       \* the calls made on the pool, in order
    \* the game repository (game.py, class Game)
    game_db,        \* the rows of the Game table; the index of a row is its id
    repo_before,    \* <<>>, or after a change of results: the rows, the
                    \* context game's info and both teams' stats before it
    \* a swami and the pick store (swami/base.py, Swami and SwamiPick)
    swami_pick,     \* the rows of the SwamiPick table, in insertion order
    game_pick,      \* self.game_pick: dict game id -> Pick
    swami_ret,      \* the last call on the swami or the store and its result
    n_inserts,      \* insert_many batches executed on the store
    \* a cyber swami (swami/cyber_basic.py, SwamiCyberBasic)
    cy_swami,       \* the parameters of the instance
    cy_game,        \* id of the game handed to cyber_pick
    cy_ret          \* <<>> before the call, <<what cyber_pick did>> after it

anly_vars  == <<game_ctx, team_filters, team_stats, frozen,
                anly_last, stats_called, n_queries, n_adds>>
score_vars == <<sc_game, sc_pick, sc_scores>>
pool_vars  == <<pool_season, swami_kind, week_games, game_picks, week_picks,
                week_scores, swami_scores, tot_scores, pool_log>>
repo_vars  == <<game_db, repo_before>>
swami_vars == <<swami_pick, game_pick, swami_ret, n_inserts>>
cyber_vars == <<cy_swami, cy_game, cy_ret>>
vars       == <<anly_vars, score_vars, pool_vars, repo_vars, swami_vars,
                cyber_vars>>

---------------------------------------------------------------------------
(* Bounds of the model *)

\* add_filter and add_team_filter calls made on one Analysis by its caller
MaxAdds == 2
\* compute_stats invocations followed on one Analysis (a get_stats that
\* raised computes again when repeated)
MaxQueries == 2
\* greatest N of AnlyFilterGames(N) tried
MaxGames == 2
\* greatest N of AnlyFilterSeasons(N) tried
MaxSeasons == 2
\* greatest pts_margin of a pick handed to compute_scores
MaxMargin == 2
\* run and compute_results calls made on one Pool
MaxPoolCalls == 3
\* insert_many batches executed on the SwamiPick table
MaxInserts == 2
\* the greatest pick_ts of a row
MaxPickTs == 2

---------------------------------------------------------------------------
(* Teams (team.py) *)

NoTeam == "None"

Teams == {"A", "B", "C", "D"}

TeamDiv == [t \in Teams |->
              CASE t = "A" -> "AE" [] t = "B" -> "AW" [] OTHER -> "NE"]

TeamConf == [t \in Teams |-> IF t \in {"A", "B"} THEN "AFC" ELSE "NFC"]

---------------------------------------------------------------------------
(* Games (game.py, class Game; rows as pfr.py game_data_iter loads them) *)

\* A played game: winner and loser as the loader sets them (the home team
\* is the winner of a tie).
Played(season, week, dt, home, away, spread, hp, ap, hy, ay, ht, at) ==
    [season |-> season, week |-> week, datetime |-> dt,
     home_team |-> home, away_team |-> away, pt_spread |-> spread,
     winner |-> IF hp >= ap THEN home ELSE away,
     loser  |-> IF hp >= ap THEN away ELSE home,
     is_tie |-> <<hp = ap>>,
     home_pts |-> <<hp>>, home_yds |-> <<hy>>, home_tos |-> <<ht>>,
     away_pts |-> <<ap>>, away_yds |-> <<ay>>, away_tos |-> <<at>>]

\* A scheduled game: every outcome field is null.
Scheduled(season, week, dt, home, away, spread) ==
    [season |-> season, week |-> week, datetime |-> dt,
     home_team |-> home, away_team |-> away, pt_spread |-> spread,
     winner |-> NoTeam, loser |-> NoTeam, is_tie |-> <<>>,
     home_pts |-> <<>>, home_yds |-> <<>>, home_tos |-> <<>>,
     away_pts |-> <<>>, away_yds |-> <<>>, away_tos |-> <<>>]

\* The game table; the index of a row is its id.  Games of one team have
\* distinct datetimes; games of disjoint pairs may share a kickoff.  Rows
\* 12 to 17 are a week of six scheduled games, one more than the number of
\* picks process_week keeps against the spread.
GameDB ==
    << Played(2021, 1, 1, "A", "B", <<-6>>, 20, 20, 300, 310, 1, 2),
       Played(2021, 1, 1, "C", "D", <<>>,   24, 21, 280, 350, 0, 1),
       Played(2021, 2, 2, "C", "A", <<0>>,  10, 17, 250, -5,  3, 0),
       Played(2021, 2, 3, "D", "B", <<3>>,  13, 14, 0,   290, 2, 2),
       Played(2022, 1, 5, "A", "C", <<-14>>, 21, 14, 400, 200, 0, 0),
       Played(2022, 1, 5, "B", "D", <<-5>>, 17, 20, 330, 340, 1, 0),
       Played(2022, 2, 6, "B", "A", <<6>>,  17, 20, 310, 305, 2, 1),
       Played(2022, 2, 7, "D", "C", <<>>,   7,  7,  150, 160, 4, 4),
       Scheduled(2022, 3, 8, "A", "D", <<-2>>),
       Scheduled(2022, 4, 9, "D", "B", <<>>),
       Played(2021, 100, 4, "B", "D", <<-3>>, 24, 10, 320, 280, 1, 2),
       Scheduled(2023, 1, 11, "A", "B", <<-3>>),
       Scheduled(2023, 1, 11, "C", "D", <<2>>),
       Scheduled(2023, 1, 12, "B", "C", <<-9>>),
       Scheduled(2023, 1, 12, "D", "A", <<5>>),
       Scheduled(2023, 1, 13, "A", "C", <<-1>>),
       Scheduled(2023, 1, 14, "B", "D", <<6>>) >>

GameIds == 1 .. Len(GameDB)

\* The games an Analysis is built for in this model.
CtxIds == {5, 10}

Game(id) == game_db[id]

home_vs_spread(g) ==
    IF g.pt_spread = <<>> THEN <<>>
    ELSE <<2 * g.home_pts[1] + g.pt_spread[1] - 2 * g.away_pts[1]>>

away_vs_spread(g) ==
    IF g.pt_spread = <<>> THEN <<>>
    ELSE <<-(home_vs_spread(g)[1])>>

\* the recorded winner taken for the winner against the spread
ats_winner_straight_up(g) ==
    IF g.pt_spread = <<>> \/ home_vs_spread(g) = <<0>> THEN NoTeam
    ELSE g.winner

ats_winner(g) ==
    IF g.pt_spread = <<>> \/ home_vs_spread(g) = <<0>> THEN NoTeam
    ELSE IF home_vs_spread(g)[1] > 0 THEN g.home_team ELSE g.away_team

ats_loser(g) ==
    IF g.pt_spread = <<>> \/ home_vs_spread(g) = <<0>> THEN NoTeam
    ELSE IF home_vs_spread(g)[1] < 0 THEN g.home_team ELSE g.away_team

\* a projection that also hands out the recorded winner
get_info_with_winner(id) ==
    [id |-> id, season |-> Game(id).season, week |-> Game(id).week,
     datetime |-> Game(id).datetime, home_team |-> Game(id).home_team,
     away_team |-> Game(id).away_team, pt_spread |-> Game(id).pt_spread,
     winner |-> Game(id).winner]

\* Game.get_info: the context and schedule fields of a game (day,
\* neutral_site and over_under are not modelled)
get_info(id) ==
    [id |-> id, season |-> Game(id).season, week |-> Game(id).week,
     datetime |-> Game(id).datetime, home_team |-> Game(id).home_team,
     away_team |-> Game(id).away_team, pt_spread |-> Game(id).pt_spread]

\* The results written to a game row in this model: none (the game is
\* not played yet), or points, yards and turnovers of home and away.
ResultInputs ==
    {<<>>, <<27, 13, 350, 250, 0, 2>>, <<13, 27, 200, 400, 3, 1>>}

\* The games whose results are rewritten in this model.
RevisedIds == {3, 5, 7, 10}

\* a game row with its outcome fields set from res
WithResults(g, res) ==
    IF res = <<>>
    THEN Scheduled(g.season, g.week, g.datetime, g.home_team, g.away_team,
                   g.pt_spread)
    ELSE Played(g.season, g.week, g.datetime, g.home_team, g.away_team,
                g.pt_spread, res[1], res[2], res[3], res[4], res[5], res[6])

\* the repository as loaded
RepoInit ==
    /\ game_db = GameDB
    /\ repo_before = <<>>

---------------------------------------------------------------------------
(* Filters (analysis.py) *)

\* FilterType values
WHERE    == 3
ORDER_BY == 6
LIMIT    == 7

\* A filter object: its class and its constructor argument (s for a team,
\* division or conference; n for a count).
Filter(cls, s, n) == [cls |-> cls, s |-> s, n |-> n]

AnlyFilterTeam(opp)   == Filter("AnlyFilterTeam", opp, 0)
AnlyFilterDiv(div)    == Filter("AnlyFilterDiv", div, 0)
AnlyFilterConf(conf)  == Filter("AnlyFilterConf", conf, 0)
AnlyFilterGames(n)    == Filter("AnlyFilterGames", "", n)
AnlyFilterSeasons(n)  == Filter("AnlyFilterSeasons", "", n)
AnlyFilterTimeframe   == Filter("_AnlyFilterTimeframe", "", 0)
AnlyFilterRevChron    == Filter("_AnlyFilterRevChron", "", 0)
AnlyFilterSelf        == Filter("_AnlyFilterSelf", "", 0)

\* the class attribute `type` of each filter class
FilterTypeOf(f) ==
    CASE f.cls = "AnlyFilterGames"     -> LIMIT
      [] f.cls = "_AnlyFilterRevChron" -> ORDER_BY
      [] OTHER                         -> WHERE

TEAM_SCOPE_FILTERS ==
    {"AnlyFilterTeam", "AnlyFilterDiv", "AnlyFilterConf", "_AnlyFilterSelf"}

FRAMEWORK_FILTERS ==
    {"_AnlyFilterTimeframe", "_AnlyFilterRevChron", "_AnlyFilterSelf"}

\* The query a chain of filters builds (peewee ModelSelect): where() adds a
\* conjunct, order_by() and limit() each replace what was set before.
EmptyQuery == [where |-> <<>>, order_by |-> "rowid", limit |-> <<>>]

Pred(kind, my, s, lo, hi) ==
    [kind |-> kind, my |-> my, s |-> s, lo |-> lo, hi |-> hi]

AddWhere(query, pred) == [query EXCEPT !.where = Append(@, pred)]

\* a timeframe filter that lets the context game itself through
DatetimeBeforeOrAt(dt, bound) == dt <= bound

\* Game.datetime < str(ctx.datetime)
DatetimeBefore(dt, bound) == dt < bound

\* a first season one too early
SeasonsStartBefore(end, seasons) == end - seasons

\* AnlyFilterSeasons.apply: start = end - self.seasons + 1
SeasonsStart(end, seasons) == end - seasons + 1

\* filter.apply(ctx, my_team, query)
Apply(f, ctx, my_team, query) ==
    CASE f.cls = "AnlyFilterTeam" ->
            AddWhere(query, Pred("team", my_team, f.s, 0, 0))
      [] f.cls = "AnlyFilterDiv" ->
            AddWhere(query, Pred("div", my_team, f.s, 0, 0))
      [] f.cls = "AnlyFilterConf" ->
            AddWhere(query, Pred("conf", my_team, f.s, 0, 0))
      [] f.cls = "AnlyFilterSeasons" ->
            AddWhere(query, Pred("season", my_team, "",
                                 SeasonsStart(Game(ctx).season, f.n),
                                 Game(ctx).season))
      [] f.cls = "_AnlyFilterTimeframe" ->
            AddWhere(query, Pred("before", my_team, "", 0, Game(ctx).datetime))
      [] f.cls = "_AnlyFilterSelf" ->
            AddWhere(query, Pred("self", my_team, "", 0, 0))
      [] f.cls = "_AnlyFilterRevChron" ->
            [query EXCEPT !.order_by = "datetime_desc"]
      [] f.cls = "AnlyFilterGames" ->
            [query EXCEPT !.limit = <<f.n>>]

\* whether row g satisfies one conjunct of the WHERE clause
Holds(p, g) ==
    CASE p.kind = "team" ->
            \/ (g.home_team = p.my /\ g.away_team = p.s)
            \/ (g.home_team = p.s /\ g.away_team = p.my)
      [] p.kind = "div" ->
            \/ (g.home_team = p.my /\ TeamDiv[g.away_team] = p.s)
            \/ (g.away_team = p.my /\ TeamDiv[g.home_team] = p.s)
      [] p.kind = "conf" ->
            \/ (g.home_team = p.my /\ TeamConf[g.away_team] = p.s)
            \/ (g.away_team = p.my /\ TeamConf[g.home_team] = p.s)
      [] p.kind = "season" -> p.lo <= g.season /\ g.season <= p.hi
      [] p.kind = "before" -> DatetimeBefore(g.datetime, p.hi)
      [] p.kind = "self"   -> g.home_team = p.my \/ g.away_team = p.my

\* the ids of S by datetime descending (rows of equal datetime in id order)
RECURSIVE OrderDesc(_)
OrderDesc(S) ==
    IF S = {} THEN <<>>
    ELSE LET m == CHOOSE g \in S : \A h \in S :
                      \/ Game(g).datetime > Game(h).datetime
                      \/ (Game(g).datetime = Game(h).datetime /\ g <= h)
         IN  <<m>> \o OrderDesc(S \ {m})

\* the ids of S in id order
RECURSIVE OrderRowid(_)
OrderRowid(S) ==
    IF S = {} THEN <<>>
    ELSE LET m == CHOOSE g \in S : \A h \in S : g <= h
         IN  <<m>> \o OrderRowid(S \ {m})

\* a limit that keeps the end of the list
TakeLast(seq, n) ==
    SubSeq(seq, IF n < Len(seq) THEN Len(seq) - n + 1 ELSE 1, Len(seq))

\* query.limit(n): the first n rows
Take(seq, n) == SubSeq(seq, 1, IF n < Len(seq) THEN n ELSE Len(seq))

\* query.execute(): the ids of the rows selected, in the order returned
Execute(query) ==
    LET rows    == {id \in GameIds :
                       \A i \in 1 .. Len(query.where) :
                           Holds(query.where[i], Game(id))}
        ordered == IF query.order_by = "datetime_desc"
                   THEN OrderDesc(rows) ELSE OrderRowid(rows)
    IN  IF query.limit = <<>> THEN ordered ELSE Take(ordered, query.limit[1])

---------------------------------------------------------------------------
(* Analysis (analysis.py, class Analysis) *)

CtxTeams(ctx) == {Game(ctx).home_team, Game(ctx).away_team}

\* list.sort(key=lambda f: f.type.value): a stable sort by phase
RECURSIVE SortFrom(_, _)
SortFrom(filters, phase) ==
    IF phase > LIMIT THEN <<>>
    ELSE LET OfPhase(f) == FilterTypeOf(f) = phase
         IN  SelectSeq(filters, OfPhase) \o SortFrom(filters, phase + 1)

\* no sort: the filters stay in insertion order
Unsorted(filters) == filters

SortByPhase(filters) == SortFrom(filters, 1)

\* the loop `for filter in self.team_filters[anly_team]: query = filter.apply(...)`
RECURSIVE ApplyAll(_, _, _, _)
ApplyAll(filters, ctx, my_team, query) ==
    IF filters = <<>> THEN query
    ELSE ApplyAll(Tail(filters), ctx, my_team,
                  Apply(Head(filters), ctx, my_team, query))

\* whether a team's filters hold one of TEAM_SCOPE_FILTERS
HasTeamScope(filters) ==
    \E i \in 1 .. Len(filters) : filters[i].cls \in TEAM_SCOPE_FILTERS

\* the first loop of compute_stats with one `team_scope` flag for all the
\* teams instead of one per team
InjectSelfSharedFlag(tf) ==
    [t \in DOMAIN tf |->
        IF \E u \in DOMAIN tf : HasTeamScope(tf[u])
        THEN tf[t] ELSE Append(tf[t], AnlyFilterSelf)]

\* the first loop of compute_stats: the default self filter for every team
\* of the analysis that has no team-scope filter
InjectSelf(tf) ==
    [t \in DOMAIN tf |->
        IF HasTeamScope(tf[t]) THEN tf[t] ELSE Append(tf[t], AnlyFilterSelf)]

\* team_filters as compute_stats(anly_team) leaves it
FiltersAfterCompute(tf, anly_team) ==
    LET injected == InjectSelf(tf)
    IN  [injected EXCEPT ![anly_team] = SortByPhase(@)]

\* the game list compute_stats materializes from a team's filter list
GamesFor(filters, ctx, anly_team) ==
    Execute(ApplyAll(SortByPhase(filters), ctx, anly_team, EmptyQuery))

\* Counter.__iadd__ ends with _keep_positive(): an entry whose count is not
\* greater than 0 is deleted, and a deleted entry reads 0
KeepPositive(count) == IF count > 0 THEN count ELSE 0

\* stats += StatsCounter(...) for each game of the list in turn, for one of
\* the three entries: val[id] is what game id adds
RECURSIVE SumFrom(_, _, _)
SumFrom(count, games, val) ==
    IF games = <<>> THEN count
    ELSE SumFrom(KeepPositive(count + val[Head(games)]), Tail(games), val)

\* the entry read after the loop, from StatsCounter.empty()
SumOver(games, val) == SumFrom(0, games, val)

\* a win wherever the team is the recorded winner, ties included
IsWinOrHomeTie(id, anly_team) == Game(id).winner = anly_team

\* lines 462-467: the class of a game of the list
IsTie(id) == Game(id).is_tie = <<TRUE>>

IsWin(id, anly_team) == ~IsTie(id) /\ Game(id).winner = anly_team

IsLoss(id, anly_team) == ~IsTie(id) /\ Game(id).winner # anly_team

\* a cover or a push
IsAtsWinOrPush(id, anly_team) ==
    /\ Game(id).pt_spread # <<>>
    /\ \/ Game(id).home_team = anly_team /\ home_vs_spread(Game(id))[1] >= 0
       \/ Game(id).home_team # anly_team /\ away_vs_spread(Game(id))[1] >= 0

\* lines 469-476: whether the team beat the spread in the game
IsAtsWin(id, anly_team) ==
    /\ Game(id).pt_spread # <<>>
    /\ \/ Game(id).home_team = anly_team /\ home_vs_spread(Game(id))[1] > 0
       \/ Game(id).home_team # anly_team /\ away_vs_spread(Game(id))[1] > 0

\* the classification loop of compute_stats and the AnlyStats it returns
MakeStats(games, anly_team) ==
    LET IsHome(id) == Game(id).home_team = anly_team
        Won(id)    == IsWin(id, anly_team)
        Lost(id)   == IsLoss(id, anly_team)
        Covered(id) == IsAtsWin(id, anly_team)
        MyPts == [id \in GameIds |-> IF IsHome(id) THEN Game(id).home_pts[1] ELSE Game(id).away_pts[1]]
        OppPts == [id \in GameIds |-> IF IsHome(id) THEN Game(id).away_pts[1] ELSE Game(id).home_pts[1]]
        MyYds == [id \in GameIds |-> IF IsHome(id) THEN Game(id).home_yds[1] ELSE Game(id).away_yds[1]]
        OppYds == [id \in GameIds |-> IF IsHome(id) THEN Game(id).away_yds[1] ELSE Game(id).home_yds[1]]
        MyTos == [id \in GameIds |-> IF IsHome(id) THEN Game(id).home_tos[1] ELSE Game(id).away_tos[1]]
        OppTos == [id \in GameIds |-> IF IsHome(id) THEN Game(id).away_tos[1] ELSE Game(id).home_tos[1]]
    IN  [games       |-> games,
         wins        |-> SelectSeq(games, Won),
         losses      |-> SelectSeq(games, Lost),
         ties        |-> SelectSeq(games, IsTie),
         ats_wins    |-> SelectSeq(games, Covered),
         pts_for     |-> SumOver(games, MyPts),
         pts_against |-> SumOver(games, OppPts),
         yds_for     |-> SumOver(games, MyYds),
         yds_against |-> SumOver(games, OppYds),
         tos_for     |-> SumOver(games, MyTos),
         tos_against |-> SumOver(games, OppTos)]

\* a cache test on the game list instead of on the stored tuple
HasGames(cell) == cell # <<>> /\ cell[1].games # <<>>

\* `if not self.team_stats[team]` is false once an AnlyStats is stored: a
\* NamedTuple of eleven fields is truthy whatever its lists hold
HasStats(cell) == cell # <<>>

\* a frozen check against TEAM_SCOPE_FILTERS instead of FRAMEWORK_FILTERS
RejectedByScope(is_frozen, f) == is_frozen /\ f.cls \notin TEAM_SCOPE_FILTERS

\* the frozen check of add_filter and add_team_filter
Rejected(is_frozen, f) == is_frozen /\ f.cls \notin FRAMEWORK_FILTERS

\* the loop of add_team_filter over the items of the map, in dict order:
\* items before a rejected one have been appended when it raises
RECURSIVE TeamFilterLoop(_, _, _)
TeamFilterLoop(tf, items, is_frozen) ==
    IF items = <<>> THEN [tf |-> tf, exc |-> "none"]
    ELSE LET team == Head(items)[1]
             f    == Head(items)[2]
         IN  IF Rejected(is_frozen, f)
             THEN [tf |-> tf, exc |-> "LogicError"]
             ELSE TeamFilterLoop([tf EXCEPT ![team] = Append(@, f)],
                                 Tail(items), is_frozen)

\* what a call carried and how it ended
Call(op, team, exc, nonfw, cached) ==
    [op |-> op, team |-> team, exc |-> exc, nonfw |-> nonfw, cached |-> cached]

\* the filters callers pass in this model
FilterInputs ==
    {AnlyFilterTeam("C"), AnlyFilterDiv("NE"), AnlyFilterConf("AFC")} \cup
    {AnlyFilterGames(n) : n \in 1 .. MaxGames} \cup
    {AnlyFilterSeasons(n) : n \in 1 .. MaxSeasons} \cup
    {AnlyFilterTimeframe, AnlyFilterRevChron, AnlyFilterSelf}

\* the two-team maps callers pass: the same filter class for both teams
\* (as the vs_team, vs_div and vs_conf swamis build them), or the self
\* filter for one team and any filter for the other
PairInputs ==
    {p \in FilterInputs \X FilterInputs :
        \/ p[1].cls = p[2].cls
        \/ p[1] = AnlyFilterSelf
        \/ p[2] = AnlyFilterSelf}

\* the per-team maps callers pass, as the sequence of their items in dict
\* order: one team of the context, or both in either order
MapInputs(ctx) ==
    {<<<<t, f>>>> : t \in CtxTeams(ctx), f \in FilterInputs} \cup
    {m \in {<<<<t, p[1]>>, <<u, p[2]>>>> :
                t \in CtxTeams(ctx), u \in CtxTeams(ctx), p \in PairInputs} :
        m[1][1] # m[2][1]}

\* Analysis.__init__: both framework filters are added to both teams
AnlyInit ==
    /\ game_ctx \in CtxIds
    /\ team_filters = [t \in CtxTeams(game_ctx) |->
                          <<AnlyFilterTimeframe, AnlyFilterRevChron>>]
    /\ team_stats = [t \in CtxTeams(game_ctx) |-> <<>>]
    /\ frozen = FALSE
    /\ anly_last = Call("init", NoTeam, "none", FALSE, FALSE)
    /\ stats_called = FALSE
    /\ n_queries = 0
    /\ n_adds = 0

\* add_filter(filter) with a single filter
AddFilter(f) ==
    /\ n_adds < MaxAdds
    /\ n_adds' = n_adds + 1
    /\ IF Rejected(frozen, f)
       THEN /\ anly_last' = Call("add_filter", NoTeam, "LogicError", TRUE, FALSE)
            /\ UNCHANGED team_filters
       ELSE /\ team_filters' = [t \in DOMAIN team_filters |->
                                   Append(team_filters[t], f)]
            /\ anly_last' = Call("add_filter", NoTeam, "none",
                                 f.cls \notin FRAMEWORK_FILTERS, FALSE)
    /\ UNCHANGED <<game_ctx, team_stats, frozen, stats_called, n_queries>>

\* add_team_filter(team_filter); add_filter(dict) does nothing but call it
AddTeamFilter(items) ==
    LET r == TeamFilterLoop(team_filters, items, frozen)
    IN  /\ n_adds < MaxAdds
        /\ n_adds' = n_adds + 1
        /\ team_filters' = r.tf
        /\ anly_last' = Call("add_team_filter", NoTeam, r.exc,
                             \E i \in 1 .. Len(items) :
                                 items[i][2].cls \notin FRAMEWORK_FILTERS,
                             FALSE)
        /\ UNCHANGED <<game_ctx, team_stats, frozen, stats_called, n_queries>>

\* A game without a result in the list makes the loop of compute_stats
\* raise TypeError: home_vs_spread adds None to the spread, and with a
\* null spread StatsCounter addition adds None to the running total.
Unplayed(id) == Game(id).home_pts = <<>>

\* get_stats(team)
GetStats(team) ==
    IF team \notin DOMAIN team_stats
    THEN /\ anly_last' = Call("get_stats", team, "LogicError", FALSE, FALSE)
         /\ UNCHANGED <<game_ctx, team_filters, team_stats, frozen,
                        stats_called, n_queries, n_adds>>
    ELSE IF ~HasStats(team_stats[team])
    THEN LET tf    == FiltersAfterCompute(team_filters, team)
             games == GamesFor(tf[team], game_ctx, team)
             fails == \E i \in 1 .. Len(games) : Unplayed(games[i])
         IN  /\ n_queries < MaxQueries
             /\ frozen' = TRUE
             /\ team_filters' = tf
             /\ team_stats' = IF fails THEN team_stats
                              ELSE [team_stats EXCEPT ![team] =
                                       <<MakeStats(games, team)>>]
             /\ n_queries' = n_queries + 1
             /\ stats_called' = TRUE
             /\ anly_last' = Call("get_stats", team,
                                  IF fails THEN "TypeError" ELSE "none",
                                  FALSE, FALSE)
             /\ UNCHANGED <<game_ctx, n_adds>>
    ELSE /\ anly_last' = Call("get_stats", team, "none", FALSE, TRUE)
         /\ stats_called' = TRUE
         /\ UNCHANGED <<game_ctx, team_filters, team_stats, frozen,
                        n_queries, n_adds>>

\* what compute_stats yields for team t in this state: the statistics, or
\* nothing where it raises
ComputedStats(t) ==
    LET tf    == FiltersAfterCompute(team_filters, t)
        games == GamesFor(tf[t], game_ctx, t)
    IN  IF \E i \in 1 .. Len(games) : Unplayed(games[i]) THEN <<>>
        ELSE <<MakeStats(games, t)>>

\* what the users of the repository are handed in this state: the info of
\* the context game and the statistics computed for its teams
RepoView ==
    [db    |-> game_db,
     info  |-> get_info(game_ctx),
     stats |-> [t \in DOMAIN team_stats |-> ComputedStats(t)]]

\* The results of one game are recorded or revised in the repository
\* (once in a behaviour).
ReviseResults(id, res) ==
    /\ game_db = GameDB
    /\ game_db' = [game_db EXCEPT ![id] = WithResults(@, res)]
    /\ game_db' # game_db
    /\ repo_before' = <<RepoView>>

AnlyNext ==
    \/ \E f \in FilterInputs : AddFilter(f)
    \/ \E m \in MapInputs(game_ctx) : AddTeamFilter(m)
    \/ \E t \in Teams : GetStats(t)

\* no Analysis under study
AnlyIdle ==
    /\ game_ctx = 0
    /\ team_filters = <<>>
    /\ team_stats = <<>>
    /\ frozen = FALSE
    /\ anly_last = Call("init", NoTeam, "none", FALSE, FALSE)
    /\ stats_called = FALSE
    /\ n_queries = 0
    /\ n_adds = 0

---------------------------------------------------------------------------
(* Scoring engine (pool.py, compute_scores) *)

\* Score(wins, losses, ties)
Score(wins, losses, ties) == <<wins, losses, ties>>

EmptyScore == Score(0, 0, 0)

\* Score.is_empty
is_empty(score) == score[1] + score[2] + score[3] = 0

\* int(bool)
BoolInt(b) == IF b THEN 1 ELSE 0

\* Pick(su_winner, ats_winner, pts_margin, total_pts)
Pick(su, ats, margin, total) ==
    [su_winner |-> su, ats_winner |-> ats,
     pts_margin |-> margin, total_pts |-> total]

\* the truth value of a nullable float: None and 0.0 are false
SpreadTruthy(pt_spread) == pt_spread # <<>> /\ pt_spread # <<0>>

\* a straight-up score without the zero-margin demotion
su_score_no_demotion(game, pick) ==
    LET tie == game.is_tie = <<TRUE>>
    IN  Score(BoolInt(~tie /\ pick.su_winner = game.winner),
              BoolInt(~tie /\ pick.su_winner # game.winner),
              BoolInt(tie))

\* lines 64-67: the straight-up score of a pick on a played game
su_score(game, pick) ==
    LET tie     == game.is_tie = <<TRUE>>
        su_win  == ~tie /\ pick.su_winner = game.winner /\ pick.pts_margin > 0
        su_loss == ~tie /\ (pick.su_winner # game.winner \/ pick.pts_margin = 0)
        su_tie  == tie
    IN  Score(BoolInt(su_win), BoolInt(su_loss), BoolInt(su_tie))

\* lines 68-75: the against-the-spread score of a pick on a played game
ats_score(game, pick) ==
    IF SpreadTruthy(game.pt_spread) /\ pick.ats_winner # NoTeam
    THEN LET ats_win  == ats_winner(game) # NoTeam /\ pick.ats_winner = ats_winner(game)
             ats_loss == ats_winner(game) # NoTeam /\ pick.ats_winner # ats_winner(game)
             ats_tie  == ats_winner(game) = NoTeam
         IN  Score(BoolInt(ats_win), BoolInt(ats_loss), BoolInt(ats_tie))
    ELSE EmptyScore

\* compute_scores(game, pick): <<su_score, ats_score>>
compute_scores(game, pick) ==
    IF game.winner = NoTeam THEN <<EmptyScore, EmptyScore>>
    ELSE <<su_score(game, pick), ats_score(game, pick)>>

\* the games and picks handed to compute_scores in this model
ScoreGames ==
    {Played(2022, 1, 1, "A", "B", spread, hp, ap, 0, 0, 0, 0) :
        spread \in {<<>>, <<0>>, <<-6>>, <<6>>, <<1>>},
        hp \in {17, 20}, ap \in {17, 20}} \cup
    {Scheduled(2022, 1, 1, "A", "B", spread) :
        spread \in {<<>>, <<0>>, <<-6>>}}

ScorePicks ==
    {Pick(su, ats, margin, 0) :
        su \in {"A", "B", NoTeam}, ats \in {"A", "B", NoTeam},
        margin \in -1 .. MaxMargin}

ScoreInit ==
    /\ sc_game \in ScoreGames
    /\ sc_pick \in ScorePicks
    /\ sc_scores = <<>>

ComputeScores ==
    /\ sc_scores = <<>>
    /\ sc_scores' = <<compute_scores(sc_game, sc_pick)>>
    /\ UNCHANGED <<sc_game, sc_pick>>

ScoreIdle ==
    /\ sc_game = <<>>
    /\ sc_pick = <<>>
    /\ sc_scores = <<>>

---------------------------------------------------------------------------
(* Dictionaries (Python dict: keys in insertion order) *)

\* keys: the keys in insertion order; val: [key -> value]
EmptyDict == [keys |-> <<>>, val |-> <<>>]

HasKey(d, k) == k \in DOMAIN d.val

\* d[k] = v: a new key goes last, an existing key keeps its place
Put(d, k, v) ==
    [keys |-> IF HasKey(d, k) THEN d.keys ELSE Append(d.keys, k),
     val  |-> (k :> v) @@ d.val]

---------------------------------------------------------------------------
(* Swamis of the pool (swami/ext_data.py: picks read from stored data) *)

\* the roster of the pool, in configured order
Swamis == <<"S1", "S2">>

\* What the stored picks of a swami look like in this model.
SwamiKinds == {"winners", "losers", "home", "away0", "late", "fan", "nopick"}

OtherTeam(g, t) == IF t = g.home_team THEN g.away_team ELSE g.home_team

\* the stored pick of a swami of the given kind for game id, if any
StoredPick(kind, id) ==
    LET g == Game(id)
    IN  CASE kind = "winners" ->
               IF g.winner = NoTeam THEN <<Pick(g.home_team, g.home_team, 1, 0)>>
               ELSE <<Pick(g.winner, ats_winner(g), 1, 0)>>
          [] kind = "losers" ->
               IF g.winner = NoTeam THEN <<Pick(g.away_team, g.away_team, 1, 0)>>
               ELSE <<Pick(g.loser,
                           IF ats_winner(g) = NoTeam THEN NoTeam
                           ELSE OtherTeam(g, ats_winner(g)), 1, 0)>>
          [] kind = "home"  -> <<Pick(g.home_team, g.home_team, 1, 0)>>
          [] kind = "away0" -> <<Pick(g.away_team, g.away_team, 0, 0)>>
          [] kind = "late"  ->
               IF g.week = 1 THEN <<>>
               ELSE <<Pick(g.home_team, NoTeam, 1, 0)>>
          [] kind = "fan"   ->
               IF "A" \notin {g.home_team, g.away_team} THEN <<>>
               ELSE <<Pick("A", "A", 2, 0)>>
          [] OTHER -> <<>>

\* SwamiExtData.get_pick: the stored pick, or None
get_pick(swami, id) == StoredPick(swami_kind[swami], id)

---------------------------------------------------------------------------
(* Pool (pool.py, class Pool) *)

\* SubPoolType values, used as index into a [su_score, ats_score] list
SU  == 0
ATS == 1

\* scores[idx] of a Scores list (tuples here start at 1)
ScoreAt(scores, idx) == scores[idx + 1]

\* lines 437-443: the games of the season, of the given weeks if any, by
\* season, week and datetime (rows of equal keys in id order)
PoolBefore(i, j) ==
    \/ Game(i).week < Game(j).week
    \/ Game(i).week = Game(j).week /\ Game(i).datetime < Game(j).datetime
    \/ Game(i).week = Game(j).week /\ Game(i).datetime = Game(j).datetime /\ i < j

RECURSIVE PoolOrder(_)
PoolOrder(S) ==
    IF S = {} THEN <<>>
    ELSE LET first == CHOOSE i \in S : \A j \in S \ {i} : PoolBefore(i, j)
         IN  <<first>> \o PoolOrder(S \ {first})

SelectGames(of_season, weeks) ==
    PoolOrder({id \in GameIds :
                  /\ Game(id).season = of_season
                  /\ weeks # {} => Game(id).week \in weeks})

\* a loop over the roster that ends at the first swami without a pick
RECURSIVE RunSwamisUntilDecline(_, _, _)
RunSwamisUntilDecline(st, id, roster) ==
    IF roster = <<>> \/ get_pick(Head(roster), id) = <<>> THEN st
    ELSE LET swami == Head(roster)
             pick  == get_pick(swami, id)
             week  == Game(id).week
             wp0 == st.week_picks.val[week]
             wp1 == IF HasKey(wp0, swami) THEN wp0
                    ELSE Put(wp0, swami, EmptyDict)
             wp2 == Put(wp1, swami, Put(wp1.val[swami], id, pick[1]))
             gp  == Put(st.game_picks, id,
                        Put(st.game_picks.val[id], swami, pick[1]))
         IN  RunSwamisUntilDecline([st EXCEPT !.game_picks = gp,
                                              !.week_picks = Put(@, week, wp2)],
                                   id, Tail(roster))

\* lines 453-461: the picks of the roster for one game
RECURSIVE RunSwamis(_, _, _)
RunSwamis(st, id, roster) ==
    IF roster = <<>> THEN st
    ELSE LET swami == Head(roster)
             pick  == get_pick(swami, id)
             week  == Game(id).week
         IN  IF pick = <<>> THEN RunSwamis(st, id, Tail(roster))
             ELSE LET wp0 == st.week_picks.val[week]
                      wp1 == IF HasKey(wp0, swami) THEN wp0
                             ELSE Put(wp0, swami, EmptyDict)
                      wp2 == Put(wp1, swami, Put(wp1.val[swami], id, pick[1]))
                      gp  == Put(st.game_picks, id,
                                 Put(st.game_picks.val[id], swami, pick[1]))
                  IN  RunSwamis([st EXCEPT !.game_picks = gp,
                                           !.week_picks = Put(@, week, wp2)],
                                id, Tail(roster))

\* lines 445-461: the loop over the selected games
RECURSIVE RunGames(_, _, _)
RunGames(st, ids, roster) ==
    IF ids = <<>> THEN st
    ELSE LET id   == Head(ids)
             week == Game(id).week
             wg   == Put(st.week_games, week,
                         Append(IF HasKey(st.week_games, week)
                                THEN st.week_games.val[week] ELSE <<>>, id))
             gp   == Put(st.game_picks, id, EmptyDict)
             wp   == IF HasKey(st.week_picks, week) THEN st.week_picks
                     ELSE Put(st.week_picks, week, EmptyDict)
             st1  == [week_games |-> wg, game_picks |-> gp, week_picks |-> wp]
         IN  RunGames(RunSwamis(st1, id, roster), Tail(ids), roster)

\* Score.init_scores
init_scores == <<EmptyScore, EmptyScore>>

\* Counter += on a [wins, losses, ties] score
ScoreSum(x, y) == Score(x[1] + y[1], x[2] + y[2], x[3] + y[3])

\* lines 491-497: add the scores of one pick to an accumulated pair; the
\* ATS part only if the pick's ATS score is not empty
AddScores(acc, scores) ==
    <<ScoreSum(ScoreAt(acc, SU), ScoreAt(scores, SU)),
      IF is_empty(ScoreAt(scores, ATS)) THEN ScoreAt(acc, ATS)
      ELSE ScoreSum(ScoreAt(acc, ATS), ScoreAt(scores, ATS))>>

\* lines 481-497: the picks of one game, in the order they were recorded
RECURSIVE ResultsSwamis(_, _, _, _)
ResultsSwamis(sc, id, swami_picks, keys) ==
    IF keys = <<>> THEN sc
    ELSE LET swami  == Head(keys)
             week   == Game(id).week
             scores == compute_scores(Game(id), swami_picks.val[swami])
             ws0 == sc.week_scores.val[week]
             ws1 == IF HasKey(ws0, swami) THEN ws0
                    ELSE Put(ws0, swami, init_scores)
             ss0 == IF HasKey(sc.swami_scores, swami)
                    THEN sc.swami_scores.val[swami] ELSE EmptyDict
             ss1 == IF HasKey(ss0, week) THEN ss0
                    ELSE Put(ss0, week, init_scores)
             ts1 == IF HasKey(sc.tot_scores, swami) THEN sc.tot_scores
                    ELSE Put(sc.tot_scores, swami, init_scores)
             sc1 == [week_scores  |->
                        Put(sc.week_scores, week,
                            Put(ws1, swami, AddScores(ws1.val[swami], scores))),
                     swami_scores |->
                        Put(sc.swami_scores, swami,
                            Put(ss1, week, AddScores(ss1.val[week], scores))),
                     tot_scores   |->
                        Put(ts1, swami, AddScores(ts1.val[swami], scores))]
         IN  ResultsSwamis(sc1, id, swami_picks, Tail(keys))

\* lines 477-497: the loop over game_picks
RECURSIVE ResultsGames(_, _, _)
ResultsGames(sc, picks, ids) ==
    IF ids = <<>> THEN sc
    ELSE LET id   == Head(ids)
             week == Game(id).week
             sc1  == IF HasKey(sc.week_scores, week) THEN sc
                     ELSE [sc EXCEPT !.week_scores = Put(@, week, EmptyDict)]
         IN  ResultsGames(ResultsSwamis(sc1, id, picks.val[id],
                                        picks.val[id].keys),
                          picks, Tail(ids))

\* results with the season totals started afresh, the week scores kept
compute_results_fresh_totals(sc, picks) ==
    ResultsGames([sc EXCEPT !.tot_scores = EmptyDict], picks, picks.keys)

\* compute_results on the given game_picks, starting from the scores held
compute_results(sc, picks) == ResultsGames(sc, picks, picks.keys)

\* the greatest of a non-empty set of integers
Max(S) == CHOOSE m \in S : \A x \in S : x <= m

\* s[1][score_idx][0] of an item of tot_scores: the wins of swami s
WinsOf(score_idx, tot, s) == ScoreAt(tot.val[s], score_idx)[1]

\* the swamis in the order of tot_scores.items()
by_insertion(score_idx, tot) == tot.keys

\* line 148: sorted(tot_scores.items(), key=-wins); the sort is stable
RECURSIVE SortedByWins(_, _, _)
SortedByWins(keys, score_idx, tot) ==
    IF keys = <<>> THEN <<>>
    ELSE LET front == SortedByWins(SubSeq(keys, 1, Len(keys) - 1), score_idx, tot)
             s     == keys[Len(keys)]
         IN  SelectSeq(front, LAMBDA x :
                 WinsOf(score_idx, tot, x) >= WinsOf(score_idx, tot, s))
             \o <<s>> \o
             SelectSeq(front, LAMBDA x :
                 WinsOf(score_idx, tot, x) < WinsOf(score_idx, tot, s))

by_wins(score_idx, tot) == SortedByWins(tot.keys, score_idx, tot)

\* line 149: next(groupby(by_wins, key=wins)): the longest run of equal
\* wins at the head of a non-empty list
FirstGroup(ranked, score_idx, tot) ==
    LET wins == WinsOf(score_idx, tot, ranked[1])
        n == CHOOSE i \in 1 .. Len(ranked) :
                 /\ \A j \in 1 .. i : WinsOf(score_idx, tot, ranked[j]) = wins
                 /\ i = Len(ranked) \/ WinsOf(score_idx, tot, ranked[i + 1]) # wins
    IN  [wins |-> wins, scores |-> SubSeq(ranked, 1, n)]

\* SubPool.get_winner: LogicError before any results; else the first group
\* of the swamis ranked by wins, a single None if that group has no win
get_winner(score_idx, tot) ==
    IF tot.keys = <<>> THEN [exc |-> "LogicError", winner |-> <<>>]
    ELSE LET first == FirstGroup(by_wins(score_idx, tot), score_idx, tot)
         IN  [exc    |-> "none",
              winner |-> IF first.wins > 0 THEN first.scores ELSE <<NoTeam>>]

\* PlayoffWeek.WC: the first playoff week; the regular-season weeks are
\* the weeks below it
WC == 100

\* SubPoolSU / SubPoolATS.swami_scores_iter: the regular-season weeks
\* scored for a swami, in the order of swami_scores[swami]
swami_scores_iter(swami) ==
    SelectSeq(swami_scores.val[swami].keys, LAMBDA w : w < WC)

\* SubPool.season_report_iter for the SU or ATS sub-pool: one row per
\* swami of tot_scores, ranked by wins; wins is the list of (week, wins)
\* columns and total the Total column (the Win % column is not modelled)
season_report_iter(score_idx) ==
    LET ranked == by_wins(score_idx, tot_scores)
    IN  [i \in 1 .. Len(ranked) |->
            LET swami == ranked[i]
                weeks == swami_scores_iter(swami)
            IN  [swami |-> swami,
                 wins  |-> [j \in 1 .. Len(weeks) |->
                              <<weeks[j],
                                ScoreAt(swami_scores.val[swami].val[weeks[j]],
                                        score_idx)[1]>>],
                 total |-> WinsOf(score_idx, tot_scores, swami)]]

\* a call on the pool and how it ended; matched is the number of games
\* the query of run() returned
PoolCall(op, weeks, matched, exc) ==
    [op |-> op, weeks |-> weeks, matched |-> matched, exc |-> exc]

\* the seasons and the weeks arguments tried ({} stands for None)
PoolSeasons == {2021, 2022}

WeekInputs == {{}, {1}, {2}, {1, 2}, {3}, {17}}

\* Pool.__init__
PoolInit ==
    /\ pool_season \in PoolSeasons
    /\ swami_kind \in [{Swamis[i] : i \in DOMAIN Swamis} -> SwamiKinds]
    /\ week_games = EmptyDict
    /\ game_picks = EmptyDict
    /\ week_picks = EmptyDict
    /\ week_scores = EmptyDict
    /\ swami_scores = EmptyDict
    /\ tot_scores = EmptyDict
    /\ pool_log = <<>>

\* the tabulation of a pool: what run() and compute_results() populate
PoolTab(wg, gp, wp, ws, ss, ts) ==
    [week_games  |-> wg, game_picks   |-> gp, week_picks |-> wp,
     week_scores |-> ws, swami_scores |-> ss, tot_scores |-> ts]

\* lines 426-432: the tabulation of a new pool
EmptyTab ==
    PoolTab(EmptyDict, EmptyDict, EmptyDict, EmptyDict, EmptyDict, EmptyDict)

\* compute_results() on a tabulation
TabResults(tab) ==
    LET sc == compute_results([week_scores  |-> tab.week_scores,
                               swami_scores |-> tab.swami_scores,
                               tot_scores   |-> tab.tot_scores],
                              tab.game_picks)
    IN  PoolTab(tab.week_games, tab.game_picks, tab.week_picks,
                sc.week_scores, sc.swami_scores, sc.tot_scores)

\* run(weeks) on a tabulation, for a pool of the given season and roster:
\* the tabulation it leaves, the number of games its query returned and
\* the exception it ends with
TabRun(tab, of_season, weeks, roster) ==
    LET ids == SelectGames(of_season, weeks)
        st  == RunGames([week_games |-> tab.week_games,
                         game_picks |-> tab.game_picks,
                         week_picks |-> tab.week_picks], ids, roster)
        picked == PoolTab(st.week_games, st.game_picks, st.week_picks,
                          tab.week_scores, tab.swami_scores, tab.tot_scores)
    IN  IF st.game_picks.keys = <<>>
        THEN [tab |-> picked, matched |-> Len(ids), exc |-> "RuntimeError"]
        ELSE [tab |-> TabResults(picked), matched |-> Len(ids), exc |-> "none"]

\* the tabulation held by the pool
Tab ==
    PoolTab(week_games, game_picks, week_picks,
            week_scores, swami_scores, tot_scores)

\* Pool.run(weeks), with the compute_results() it ends with
Run(weeks) ==
    /\ Len(pool_log) < MaxPoolCalls
    /\ LET res == TabRun(Tab, pool_season, weeks, Swamis)
       IN  /\ week_games' = res.tab.week_games
           /\ game_picks' = res.tab.game_picks
           /\ week_picks' = res.tab.week_picks
           /\ week_scores' = res.tab.week_scores
           /\ swami_scores' = res.tab.swami_scores
           /\ tot_scores' = res.tab.tot_scores
           /\ pool_log' = Append(pool_log,
                  PoolCall("run", weeks, res.matched, res.exc))
    /\ UNCHANGED <<pool_season, swami_kind>>

\* Pool.compute_results() called by the user of the pool
ComputeResults ==
    /\ Len(pool_log) < MaxPoolCalls
    /\ LET tab == TabResults(Tab)
       IN  /\ week_scores' = tab.week_scores
           /\ swami_scores' = tab.swami_scores
           /\ tot_scores' = tab.tot_scores
    /\ pool_log' = Append(pool_log, PoolCall("compute_results", {}, 0, "none"))
    /\ UNCHANGED <<pool_season, swami_kind, week_games, game_picks, week_picks>>

PoolNext ==
    \/ \E weeks \in WeekInputs : Run(weeks)
    \/ ComputeResults

\* no pool in use
PoolIdle ==
    /\ pool_season = 0
    /\ swami_kind = <<>>
    /\ week_games = EmptyDict
    /\ game_picks = EmptyDict
    /\ week_picks = EmptyDict
    /\ week_scores = EmptyDict
    /\ swami_scores = EmptyDict
    /\ tot_scores = EmptyDict
    /\ pool_log = <<>>

---------------------------------------------------------------------------
(* A swami and the pick store (swami/base.py, swami/ext_data.py) *)

\* the swamis with rows in the store; SelfSwami is the instance modelled
PickSwamis == {"S1", "S2"}

SelfSwami == "S1"

\* what a batch of stored picks says: the home teams with one confidence,
\* the away teams without a confidence, or the home teams of the six-game
\* week with confidences 6 down to 1 ("graded") or 6, 5, 4, 3, 2, 2
\* ("tied")
PickKinds == {"home", "away", "graded", "tied"}

\* the games of one insert_many batch, in the order of its rows
PickBatches == {<<1>>, <<1, 2>>, <<3>>, <<12>>, <<12, 13, 14, 15, 16, 17>>}

\* the batches of the model: the games and what the picks say
BatchInputs ==
    {b \in PickBatches \X PickKinds :
        (b[2] \in {"graded", "tied"}) <=> (Len(b[1]) = 6)}

\* the games a pick is asked for
PickGames == {1, 2, 3, 5, 12}

\* the weeks process_week is called for
PickWeeks == {<<2021, 1>>, <<2021, 2>>, <<2022, 1>>, <<2023, 1>>}

\* a row of the SwamiPick table (the fields the model follows)
SwamiPickRow(swami, id, kind, ts) ==
    LET g == Game(id)
        t == IF kind = "away" THEN g.away_team ELSE g.home_team
    IN  [swami |-> swami, game |-> id,
         su_winner |-> t,
         ats_winner |-> IF g.pt_spread = <<>> THEN NoTeam ELSE t,
         pts_margin |-> IF kind = "away" THEN 1 ELSE 3,
         total_pts |-> 0,
         ats_conf |-> CASE kind = "home"   -> <<2>>
                        [] kind = "away"   -> <<>>
                        [] kind = "graded" -> <<18 - id>>
                        [] kind = "tied"   -> <<IF id = 17 THEN 2 ELSE 18 - id>>,
         pick_ts |-> ts]

\* SwamiPick.get_pick: the Pick fields of the row
SwamiPick_get_pick(row) ==
    Pick(row.su_winner, row.ats_winner, row.pts_margin, row.total_pts)

\* the whole pick cleared
clear_pick(row) ==
    [row EXCEPT !.su_winner = NoTeam, !.ats_winner = NoTeam,
                !.ats_conf = <<>>]

\* SwamiPick.clear_ats
clear_ats(row) == [row EXCEPT !.ats_winner = NoTeam, !.ats_conf = <<>>]

\* where(SwamiPick.swami_id == self.id, SwamiPick.game_id == game.id)
GameRows(id) ==
    {i \in DOMAIN swami_pick :
        swami_pick[i].swami = SelfSwami /\ swami_pick[i].game = id}

\* join(Game).where(SwamiPick.swami_id == self.id, Game.season == season,
\*                  Game.week == week)
WeekRows(of_season, week) ==
    {i \in DOMAIN swami_pick :
        /\ swami_pick[i].swami = SelfSwami
        /\ Game(swami_pick[i].game).season = of_season
        /\ Game(swami_pick[i].game).week = week}

\* .get(): the first row of the ordered query, any of the rows with the
\* greatest pick_ts
LatestRows(rows) ==
    {i \in rows : \A j \in rows : swami_pick[j].pick_ts <= swami_pick[i].pick_ts}

\* the rows of one game among rows
RowsOf(rows, id) == {i \in rows : swami_pick[i].game = id}

\* order_by(SwamiPick.pick_ts.desc()) and lines 153-163: the local
\* game_pick keeps the first row of each game, one of the game's rows of
\* greatest pick_ts.  LocalPicks(rows): the sets of rows it may end with.
RECURSIVE LocalPicks(_)
LocalPicks(rows) ==
    IF rows = {} THEN {{}}
    ELSE LET of_game == RowsOf(rows, swami_pick[CHOOSE i \in rows : TRUE].game)
         IN  {{i} \cup rest : i \in LatestRows(of_game),
                              rest \in LocalPicks(rows \ of_game)}

\* p.ats_conf or 0
ConfOrZero(row) == IF row.ats_conf = <<>> THEN 0 ELSE row.ats_conf[1]

\* rankdata(a, method='min'): the greatest value has rank 1 and equal
\* values share the smallest of their ranks, one more than the number of
\* greater values
rankdata(a) ==
    [i \in DOMAIN a |-> 1 + Cardinality({j \in DOMAIN a : a[j] > a[i]})]

\* ats_confs, by row of the local game_pick
AtsConfs(rows) == [i \in rows |-> ConfOrZero(swami_pick[i])]

\* sorted(enumerate(ats_conf_rank), key=rank): the rows by rank.  The sort
\* is stable, so rows of equal rank stay in the order of the local
\* game_pick, which is the order of the query: the greater pick_ts first,
\* rows of equal pick_ts in any order.  ByRank: the lists this allows.
RECURSIVE ByRank(_, _)
ByRank(ranks, rows) ==
    IF rows = {} THEN {<<>>}
    ELSE LET first == {i \in rows : \A j \in rows :
                          \/ ranks[i] < ranks[j]
                          \/ /\ ranks[i] = ranks[j]
                             /\ swami_pick[i].pick_ts >= swami_pick[j].pick_ts}
         IN  UNION {{<<i>> \o rest : rest \in ByRank(ranks, rows \ {i})} :
                    i \in first}

\* hardwired in process_week
ats_min_picks == 5

\* lines 173-180: the picks go into self.game_pick in rank order; a game
\* that is cached already fails the assertion and ends the call
RECURSIVE CacheLoop(_, _, _, _)
CacheLoop(ranks, order, k, cache) ==
    IF k > Len(order) THEN [cache |-> cache, exc |-> ""]
    ELSE LET idx == order[k]
             row == IF ranks[idx] > ats_min_picks
                    THEN clear_ats(swami_pick[idx])
                    ELSE swami_pick[idx]
         IN  IF HasKey(cache, row.game)
             THEN [cache |-> cache, exc |-> "AssertionError"]
             ELSE CacheLoop(ranks, order, k + 1,
                            Put(cache, row.game, SwamiPick_get_pick(row)))

\* process_week, its loop taking the rows of the local game_pick in the
\* given order
process_week(order, cache) ==
    LET local == {order[k] : k \in DOMAIN order}
    IN  CacheLoop(rankdata(AtsConfs(local)), order, 1, cache)

SwamiRet(op, of_season, week, id, pick, exc) ==
    [op |-> op, season |-> of_season, week |-> week, game |-> id,
     pick |-> pick, exc |-> exc]

\* Swami.__init__: self.game_pick = {}; the store is empty
SwamiInit ==
    /\ swami_pick = <<>>
    /\ game_pick = EmptyDict
    /\ swami_ret = SwamiRet("init", 0, 0, 0, <<>>, "")
    /\ n_inserts = 0

\* SwamiPick.insert_many(picks_data).execute(): one batch of rows with the
\* pick_ts the clock gave
InsertMany(swami, ids, kind, ts) ==
    /\ n_inserts < MaxInserts
    /\ n_inserts' = n_inserts + 1
    /\ swami_pick' = swami_pick \o
           [i \in DOMAIN ids |-> SwamiPickRow(swami, ids[i], kind, ts)]
    /\ swami_ret' = SwamiRet("insert_many", 0, 0, 0, <<>>, "")
    /\ UNCHANGED game_pick

\* Swami.process_week(season, week)
ProcessWeek(of_season, week) ==
    \E local \in LocalPicks(WeekRows(of_season, week)) :
      \E order \in ByRank(rankdata(AtsConfs(local)), local) :
        LET r == process_week(order, game_pick)
        IN  /\ game_pick' = r.cache
            /\ swami_ret' = SwamiRet("process_week", of_season, week, 0,
                                     <<>>, r.exc)
            /\ UNCHANGED <<swami_pick, n_inserts>>

\* the query of both get_pick methods: the latest row of the game, or None
QueryPick(op, id) ==
    /\ IF GameRows(id) = {}
       THEN swami_ret' = SwamiRet(op, 0, 0, id, <<>>, "")
       ELSE \E i \in LatestRows(GameRows(id)) :
               swami_ret' = SwamiRet(op, 0, 0, id,
                                     <<SwamiPick_get_pick(swami_pick[i])>>, "")
    /\ UNCHANGED <<swami_pick, game_pick, n_inserts>>

\* Swami.get_pick(game): the cached pick first
GetPick(id) ==
    IF HasKey(game_pick, id)
    THEN /\ swami_ret' = SwamiRet("get_pick", 0, 0, id,
                                  <<game_pick.val[id]>>, "")
         /\ UNCHANGED <<swami_pick, game_pick, n_inserts>>
    ELSE QueryPick("get_pick", id)

\* SwamiExtData.get_pick(game_info)
ExtDataGetPick(id) == QueryPick("ext_data_get_pick", id)

SwamiNext ==
    \/ \E swami \in PickSwamis, b \in BatchInputs, ts \in 1 .. MaxPickTs :
          InsertMany(swami, b[1], b[2], ts)
    \/ \E w \in PickWeeks : ProcessWeek(w[1], w[2])
    \/ \E id \in PickGames : GetPick(id)
    \/ \E id \in PickGames : ExtDataGetPick(id)

---------------------------------------------------------------------------
(* Cyber swamis (swami/cyber_basic.py, SwamiCyberBasic.cyber_pick) *)

\* a value of an AnlyStats property as a fraction <<numerator, denominator>>
\* with a positive denominator; an average over no games is -1.0
Average(num, stats) ==
    IF stats.games = <<>> THEN <<-1, 1>> ELSE <<num, Len(stats.games)>>

\* getattr(stats, CRIT_MAP[crit]), and total_pts
StatValue(stats, stat) ==
    CASE stat = "games"       -> <<Len(stats.games), 1>>
      [] stat = "wins"        -> <<Len(stats.wins), 1>>
      [] stat = "win_pct"     -> Average(Len(stats.wins) * 100, stats)
      [] stat = "ats_wins"    -> <<Len(stats.ats_wins), 1>>
      [] stat = "ats_win_pct" -> Average(Len(stats.ats_wins) * 100, stats)
      [] stat = "pts"         -> Average(stats.pts_for - stats.pts_against, stats)
      [] stat = "yds"         -> Average(stats.yds_for - stats.yds_against, stats)
      [] stat = "tos"         -> Average(stats.tos_against - stats.tos_for, stats)
      [] stat = "total_pts"   -> Average(stats.pts_for + stats.pts_against, stats)

FracLess(a, b) == a[1] * b[2] < b[1] * a[2]

\* round(num / den), den > 0: to the nearest integer, halves to the even one
Round(num, den) ==
    LET q == num \div den
        r == num - q * den
    IN  IF 2 * r < den THEN q
        ELSE IF 2 * r > den THEN q + 1
        ELSE IF q % 2 = 0 THEN q ELSE q + 1

\* the fields of Pick and the positional arguments cyber_pick hands to it:
\* winner, ats_winner, my_spread, margin, round(total_pts) and the two of
\* conf
PickFields == <<"su_winner", "ats_winner", "pts_margin", "total_pts">>

CyberPickArgs ==
    <<"winner", "ats_winner", "my_spread", "margin", "total_pts",
      "conf[0]", "conf[1]">>

\* the instances of this model: num_seasons or num_games is set
CyberSwamis ==
    {[num_seasons |-> ns, num_games |-> ng, consider_venue |-> cv,
      criteria |-> cr, vs_team |-> vt] :
        ns \in 0 .. MaxSeasons, ng \in 0 .. MaxGames, cv \in BOOLEAN,
        cr \in {<<>>, <<"wins">>, <<"pts">>, <<"games">>, <<"yds">>,
                <<"win_pct", "pts">>, <<"ats_wins", "tos">>,
                <<"ats_win_pct">>},
        vt \in BOOLEAN} \ {s \in
    [num_seasons : {0}, num_games : {0}, consider_venue : BOOLEAN,
     criteria : {<<>>, <<"wins">>, <<"pts">>, <<"games">>, <<"yds">>,
                 <<"win_pct", "pts">>, <<"ats_wins", "tos">>,
                 <<"ats_win_pct">>},
     vs_team : BOOLEAN] : TRUE}

\* the games a pick is made for
CyberGames == {5, 7, 8, 10}

\* lines 51-73: the filter lists of the Analysis when get_stats is called
CyberFilters(swami, id) ==
    LET home == Game(id).home_team
        away == Game(id).away_team
        base == IF swami.num_seasons # 0
                THEN AnlyFilterSeasons(swami.num_seasons)
                ELSE AnlyFilterGames(swami.num_games)
        both == <<AnlyFilterTimeframe, AnlyFilterRevChron, base>>
    IN  IF swami.vs_team
        THEN (home :> Append(both, AnlyFilterTeam(away))) @@
             (away :> Append(both, AnlyFilterTeam(home)))
        ELSE (home :> both) @@ (away :> both)

\* lines 79-98: the first criterion that tells the teams apart; 0 where
\* none does
RECURSIVE FirstCrit(_, _, _, _)
FirstCrit(criteria, k, home_stats, away_stats) ==
    IF k > Len(criteria) THEN 0
    ELSE IF \/ FracLess(StatValue(home_stats, criteria[k]),
                         StatValue(away_stats, criteria[k]))
            \/ FracLess(StatValue(away_stats, criteria[k]),
                         StatValue(home_stats, criteria[k]))
         THEN k
         ELSE FirstCrit(criteria, k + 1, home_stats, away_stats)

CyberRet(exc, line, winner, ats, margin, total, pick) ==
    [exc |-> exc, line |-> line, winner |-> winner, ats_winner |-> ats,
     margin |-> margin, total_pts |-> total, pick |-> pick]

\* lines 68-76: the games get_stats(team) evaluates, the home team's
\* statistics being asked first
CyberGamesFor(swami, id, team) ==
    LET home == Game(id).home_team
        tf1  == FiltersAfterCompute(CyberFilters(swami, id), home)
    IN  IF team = home THEN GamesFor(tf1[home], id, home)
        ELSE GamesFor(FiltersAfterCompute(tf1, team)[team], id, team)

CyberStats(swami, id, team) == MakeStats(CyberGamesFor(swami, id, team), team)

\* lines 77-112 of cyber_pick, with the games of both statistics (hg, ag)
\* and the statistics (hs, as) that lines 75-76 obtained: how the call ends
\* (the exception and the line that raises it, or the Pick) and the locals
\* it had computed
CyberDecide(swami, g, hg, ag, hs, as) ==
    LET home  == g.home_team
        away  == g.away_team
        ht    == StatValue(hs, "total_pts")
        at    == StatValue(as, "total_pts")
        total == Round(ht[1] * at[2] + at[1] * ht[2], 2 * ht[2] * at[2])
        k     == FirstCrit(swami.criteria, 1, hs, as)
        home_fav == k = 0 \/ FracLess(StatValue(as, swami.criteria[k]),
                                     StatValue(hs, swami.criteria[k]))
        winner == IF home_fav THEN home ELSE away
        m      == IF home_fav THEN StatValue(hs, "pts") ELSE StatValue(as, "pts")
        \* my_spread > game_info.pt_spread, the spread in half points
        above  == IF home_fav THEN -2 * m[1] > g.pt_spread[1] * m[2]
                  ELSE 2 * m[1] > g.pt_spread[1] * m[2]
        ats    == IF g.pt_spread = <<>> THEN NoTeam
                  ELSE IF above THEN away ELSE home
        margin == IF Round(m[1], m[2]) > 1 THEN Round(m[1], m[2]) ELSE 1
    IN  IF swami.consider_venue
        THEN CyberRet("AttributeError", 62, NoTeam, NoTeam, 0, 0, <<>>)
        ELSE IF \E i \in 1 .. Len(hg) : Unplayed(hg[i])
        THEN CyberRet("TypeError", 75, NoTeam, NoTeam, 0, 0, <<>>)
        ELSE IF \E i \in 1 .. Len(ag) : Unplayed(ag[i])
        THEN CyberRet("TypeError", 76, NoTeam, NoTeam, 0, 0, <<>>)
        ELSE IF g.pt_spread = <<>>
        THEN CyberRet("TypeError", 111, winner, ats, margin, total, <<>>)
        ELSE IF Len(CyberPickArgs) # Len(PickFields)
        THEN CyberRet("TypeError", 112, winner, ats, margin, total, <<>>)
        ELSE CyberRet("", 112, winner, ats, margin, total,
                      <<Pick(winner, ats, margin, total)>>)

\* lines 75-76: the statistics of the home and of the away team
CyberWithGames(swami, id, hg, ag) ==
    CyberDecide(swami, Game(id), hg, ag,
                MakeStats(hg, Game(id).home_team),
                MakeStats(ag, Game(id).away_team))

\* cyber_pick(game_info) of a swami
cyber_pick(swami, id) ==
    CyberWithGames(swami, id,
                   CyberGamesFor(swami, id, Game(id).home_team),
                   CyberGamesFor(swami, id, Game(id).away_team))

CyberInit ==
    /\ cy_swami \in CyberSwamis
    /\ cy_game \in CyberGames
    /\ cy_ret = <<>>

CyberPick ==
    /\ cy_ret = <<>>
    /\ cy_ret' = <<cyber_pick(cy_swami, cy_game)>>
    /\ UNCHANGED <<cy_swami, cy_game>>

CyberIdle ==
    /\ cy_swami = <<>>
    /\ cy_game = 0
    /\ cy_ret = <<>>

---------------------------------------------------------------------------
(* Week report (pool.py, SubPoolSU and SubPoolATS week_report_iter) *)

\* a string is the sequence of its characters
DigitChars == <<"0", "1", "2", "3", "4", "5", "6", "7", "8", "9">>

\* str(n) for n >= 0
RECURSIVE Digits(_)
Digits(n) ==
    IF n < 10 THEN <<DigitChars[n + 1]>>
    ELSE Digits(n \div 10) \o <<DigitChars[(n % 10) + 1]>>

\* the code point of a character of a percentage
Ord(c) ==
    IF c = "%" THEN 37
    ELSE IF c = "-" THEN 45
    ELSE 47 + (CHOOSE d \in DOMAIN DigitChars : DigitChars[d] = c)

\* a < b on strings: by code point, a proper prefix first
RECURSIVE StrLess(_, _)
StrLess(a, b) ==
    IF b = <<>> THEN FALSE
    ELSE IF a = <<>> THEN TRUE
    ELSE IF Head(a) = Head(b) THEN StrLess(Tail(a), Tail(b))
    ELSE Ord(Head(a)) < Ord(Head(b))

\* f"{num / den * 100.0:.0f}%" for num >= 0 and den > 0
PctStr(num, den) == Digits(Round(num * 100, den)) \o <<"%">>

\* lines 285 and 337: the Win % of a swami row; without a pick counted the
\* divisor is -1 and the value -0.0, which formats with its sign
win_pct(swami_wins, swami_ties, swami_total) ==
    IF swami_total = 0
    THEN <<"-">> \o PctStr(2 * swami_wins + swami_ties, 2)
    ELSE PctStr(2 * swami_wins + swami_ties, 2 * swami_total)

\* Game.matchup: f"{away_team} vs {home_team}"
matchup(id) == <<Game(id).away_team, "vs", Game(id).home_team>>

\* g.ats_winner as the report reads it: home_vs_spread raises TypeError on
\* a game with a spread and no points
AtsWinnerOf(g) ==
    IF g.pt_spread # <<>> /\ g.home_pts = <<>>
    THEN [exc |-> "TypeError", team |-> NoTeam]
    ELSE [exc |-> "none", team |-> ats_winner(g)]

\* lines 258-260 and 311-313: the cell of one game in the Winner row; Game
\* has no attribute is_ats_push, which is read where ats_winner is None
WinnerCell(score_idx, g) ==
    IF score_idx = SU
    THEN [exc  |-> "none",
          cell |-> IF g.winner # NoTeam /\ g.is_tie # <<TRUE>> THEN g.winner
                   ELSE IF g.is_tie = <<TRUE>> THEN "-tie-" ELSE "-tbd-"]
    ELSE IF AtsWinnerOf(g).exc # "none"
         THEN [exc |-> AtsWinnerOf(g).exc, cell |-> ""]
         ELSE IF AtsWinnerOf(g).team # NoTeam
              THEN [exc |-> "none", cell |-> AtsWinnerOf(g).team]
              ELSE [exc |-> "AttributeError", cell |-> ""]

\* the dict comprehension of the Winner row over week_games[week]
RECURSIVE WinnerRow(_, _, _)
WinnerRow(score_idx, ids, row) ==
    IF ids = <<>> THEN [exc |-> "none", row |-> row]
    ELSE LET c == WinnerCell(score_idx, Game(Head(ids)))
         IN  IF c.exc # "none" THEN [exc |-> c.exc, row |-> row]
             ELSE WinnerRow(score_idx, Tail(ids),
                            Put(row, matchup(Head(ids)), c.cell))

\* lines 263 and 315: the set of winners of the week
ReportWinners(score_idx, ids) ==
    IF score_idx = SU
    THEN {Game(ids[i]).winner :
             i \in {j \in DOMAIN ids : Game(ids[j]).is_tie # <<TRUE>>}}
    ELSE {ats_winner(Game(ids[i])) : i \in DOMAIN ids} \ {NoTeam}

\* the team of a pick the sub-pool looks at
PickedTeam(score_idx, p) ==
    IF score_idx = SU THEN p.su_winner ELSE p.ats_winner

\* Counter[key] += 1
Incr(d, k) == Put(d, k, IF HasKey(d, k) THEN d.val[k] + 1 ELSE 1)

\* lines 272-284 and 324-336: the picks of one swami; acc holds the row
\* under construction and the two counters shared by the rows
RECURSIVE ReportPicks(_, _, _, _, _)
ReportPicks(score_idx, winners, game_picks_of, keys, acc) ==
    IF keys = <<>> \/ acc.exc # "none" THEN acc
    ELSE LET id   == Head(keys)
             g    == Game(id)
             team == PickedTeam(score_idx, game_picks_of.val[id])
             won  == team \in winners
             counted == [acc EXCEPT
                            !.swami_total = @ + 1,
                            !.total_picks = Incr(@, matchup(id))]
         IN  IF team = NoTeam
             THEN ReportPicks(score_idx, winners, game_picks_of, Tail(keys), acc)
             ELSE IF won
             THEN ReportPicks(score_idx, winners, game_picks_of, Tail(keys),
                      [counted EXCEPT
                          !.swami_wins = @ + 1,
                          !.winning_picks = Incr(@, matchup(id)),
                          !.picks = Put(@, matchup(id), <<team, "*">>)])
             ELSE IF score_idx = ATS
             THEN [counted EXCEPT !.exc = "AttributeError"]
             ELSE ReportPicks(score_idx, winners, game_picks_of, Tail(keys),
                      [counted EXCEPT
                          !.swami_ties = @ + BoolInt(g.is_tie = <<TRUE>>),
                          !.picks = Put(@, matchup(id), <<team, "">>)])

\* a row of the report
ReportRow(swami, picks, total, pct) ==
    [swami |-> swami, picks |-> picks, total |-> total, win_pct |-> pct]

\* lines 267-287 and 319-339: the loop over week_picks[week].items()
RECURSIVE ReportSwamis(_, _, _, _, _)
ReportSwamis(score_idx, winners, week_picks_of, keys, acc) ==
    IF keys = <<>> \/ acc.exc # "none" THEN acc
    ELSE LET swami == Head(keys)
             start == [acc EXCEPT !.picks = EmptyDict, !.swami_wins = 0,
                                  !.swami_ties = 0, !.swami_total = 0]
             done  == ReportPicks(score_idx, winners, week_picks_of.val[swami],
                                  week_picks_of.val[swami].keys, start)
             result == ReportRow(swami, done.picks, done.swami_wins,
                                 win_pct(done.swami_wins, done.swami_ties,
                                         done.swami_total))
         IN  IF done.exc # "none" THEN done
             ELSE ReportSwamis(score_idx, winners, week_picks_of, Tail(keys),
                               [done EXCEPT !.results = Append(@, result)])

\* lines 288 and 340: sorted(results, key=r[WIN_PCT], reverse=True); the
\* key is the Win % string, rows of equal keys keep their order
RECURSIVE sorted_by_win_pct(_)
sorted_by_win_pct(results) ==
    IF results = <<>> THEN <<>>
    ELSE LET front == sorted_by_win_pct(SubSeq(results, 1, Len(results) - 1))
             r     == results[Len(results)]
         IN  SelectSeq(front, LAMBDA x : ~StrLess(x.win_pct, r.win_pct))
             \o <<r>> \o
             SelectSeq(front, LAMBDA x : StrLess(x.win_pct, r.win_pct))

\* lines 291-292 and 343-344: the share of winning picks per matchup
pick_pct(winning_picks, total_picks) ==
    [keys |-> winning_picks.keys,
     val  |-> [k \in DOMAIN winning_picks.val |->
                  PctStr(winning_picks.val[k], total_picks.val[k])]]

\* week_report_iter(week) of the SU or the ATS sub-pool: the rows yielded
\* and the exception that ended the iteration, if any
week_report_iter(score_idx, week) ==
    LET ids    == week_games.val[week]
        winner == WinnerRow(score_idx, ids, EmptyDict)
        loop   == ReportSwamis(score_idx, ReportWinners(score_idx, ids),
                               week_picks.val[week], week_picks.val[week].keys,
                               [exc |-> "none", results |-> <<>>,
                                picks |-> EmptyDict, swami_wins |-> 0,
                                swami_ties |-> 0, swami_total |-> 0,
                                total_picks |-> EmptyDict,
                                winning_picks |-> EmptyDict])
        first  == ReportRow("Winner", winner.row, "", <<>>)
        last   == ReportRow("Win %",
                            pick_pct(loop.winning_picks, loop.total_picks),
                            "", <<>>)
    IN  IF winner.exc # "none" THEN [rows |-> <<>>, exc |-> winner.exc]
        ELSE IF loop.exc # "none" THEN [rows |-> <<first>>, exc |-> loop.exc]
        ELSE [rows |-> <<first>> \o sorted_by_win_pct(loop.results) \o <<last>>,
              exc  |-> "none"]

---------------------------------------------------------------------------
(* Specifications *)

\* One Analysis, driven by its caller.
Init == RepoInit /\ AnlyInit /\ ScoreIdle /\ PoolIdle /\ SwamiInit /\ CyberIdle

Next ==
    AnlyNext /\ UNCHANGED <<score_vars, pool_vars, repo_vars, swami_vars,
                            cyber_vars>>

Spec == Init /\ [][Next]_vars

\* compute_scores applied to one game and one pick.
InitScore ==
    RepoInit /\ AnlyIdle /\ ScoreInit /\ PoolIdle /\ SwamiInit /\ CyberIdle

NextScore ==
    ComputeScores /\ UNCHANGED <<anly_vars, pool_vars, repo_vars, swami_vars,
                                 cyber_vars>>

SpecScore == InitScore /\ [][NextScore]_vars

\* One Analysis with filters added to both teams, over a repository whose
\* game results change.
InitRepo == Init

NextRepo ==
    \/ (\E f \in FilterInputs : AddFilter(f))
          /\ repo_before' = <<>>
          /\ UNCHANGED <<score_vars, pool_vars, game_db, swami_vars,
                         cyber_vars>>
    \/ (\E t \in Teams : GetStats(t))
          /\ repo_before' = <<>>
          /\ UNCHANGED <<score_vars, pool_vars, game_db, swami_vars,
                         cyber_vars>>
    \/ (\E id \in RevisedIds, res \in ResultInputs : ReviseResults(id, res))
          /\ UNCHANGED <<anly_vars, score_vars, pool_vars, swami_vars,
                         cyber_vars>>

SpecRepo == InitRepo /\ [][NextRepo]_vars

\* One Pool, run and recomputed by its user.
InitPool ==
    RepoInit /\ AnlyIdle /\ ScoreIdle /\ PoolInit /\ SwamiInit /\ CyberIdle

NextPool ==
    PoolNext /\ UNCHANGED <<anly_vars, score_vars, repo_vars, swami_vars,
                            cyber_vars>>

SpecPool == InitPool /\ [][NextPool]_vars

\* the swami and the pick store alone
InitSwami ==
    RepoInit /\ AnlyIdle /\ ScoreIdle /\ PoolIdle /\ SwamiInit /\ CyberIdle

NextSwami ==
    SwamiNext /\ UNCHANGED <<anly_vars, score_vars, pool_vars, repo_vars,
                             cyber_vars>>

SpecSwami == InitSwami /\ [][NextSwami]_vars

\* a cyber swami making one pick
InitCyber ==
    RepoInit /\ AnlyIdle /\ ScoreIdle /\ PoolIdle /\ SwamiInit /\ CyberInit

NextCyber ==
    CyberPick /\ UNCHANGED <<anly_vars, score_vars, pool_vars, repo_vars,
                             swami_vars>>

SpecCyber == InitCyber /\ [][NextCyber]_vars

---------------------------------------------------------------------------
(* Properties of the Analysis engine *)

StatsOf(t) == team_stats[t][1]

Involves(id, t) == Game(id).home_team = t \/ Game(id).away_team = t

\* C1: no game of get_stats(team).games has a datetime at or after the
\* datetime of the game context, whatever filters the caller added.
C1_NoLookAhead ==
    \A t \in DOMAIN team_stats :
        team_stats[t] # <<>> =>
            \A i \in 1 .. Len(StatsOf(t).games) :
                Game(StatsOf(t).games[i]).datetime < Game(game_ctx).datetime

\* stats with games were returned for a team that has a later game in the
\* table other than the context game, after caller filters were added
C1_Witness ==
    \E t \in DOMAIN team_stats :
        /\ team_stats[t] # <<>>
        /\ StatsOf(t).games # <<>>
        /\ n_adds > 0
        /\ \E id \in GameIds \ {game_ctx} :
               Involves(id, t) /\ Game(id).datetime > Game(game_ctx).datetime

IsPrefix(a, b) == Len(a) <= Len(b) /\ SubSeq(b, 1, Len(a)) = a

\* C2: once get_stats has been called for a team of the Analysis, an
\* add_filter or add_team_filter call carrying a non-framework filter raises
\* LogicError, and a call carrying only framework filters is accepted: it
\* raises nothing and appends its filters.
C2_FrozenRejects ==
    [][ (stats_called /\ n_adds' = n_adds + 1) =>
            IF anly_last'.nonfw
            THEN anly_last'.exc = "LogicError"
            ELSE /\ anly_last'.exc = "none"
                 /\ \A t \in DOMAIN team_filters :
                        /\ IsPrefix(team_filters[t], team_filters'[t])
                        /\ \A i \in Len(team_filters[t]) + 1 .. Len(team_filters'[t]) :
                               team_filters'[t][i].cls \in FRAMEWORK_FILTERS
                 /\ \E t \in DOMAIN team_filters :
                        Len(team_filters'[t]) > Len(team_filters[t]) ]_vars

\* after get_stats, a per-team map with a non-framework filter was rejected
C2_Witness ==
    /\ stats_called
    /\ anly_last.op = "add_team_filter"
    /\ anly_last.nonfw
    /\ anly_last.exc = "LogicError"

\* the filter list is in non-decreasing phase order
PhaseSorted(filters) ==
    \A i \in 1 .. Len(filters) - 1 :
        FilterTypeOf(filters[i]) <= FilterTypeOf(filters[i + 1])

\* the orders in which the same filters can have been added: __init__ adds
\* the timeframe and the ordering filter first
InsertionOrders(filters) ==
    {q \in {[i \in 1 .. Len(filters) |-> filters[p[i]]] :
                p \in Permutations(1 .. Len(filters))} :
        q[1] = AnlyFilterTimeframe /\ q[2] = AnlyFilterRevChron}

LimitsOf(filters) ==
    LET IsLimit(f) == FilterTypeOf(f) = LIMIT
    IN  SelectSeq(filters, IsLimit)

\* get_stats computes the stats of t in this step
Computes(t) == team_stats[t] = <<>> /\ team_stats'[t] # <<>>

\* C3 as stated: compute_stats applies the filters in non-decreasing phase
\* order and the game list is the same for every insertion order of the same
\* filters.
C3_AnyInsertionOrder ==
    [][ \A t \in DOMAIN team_stats :
            Computes(t) =>
                /\ PhaseSorted(team_filters'[t])
                /\ \A q \in InsertionOrders(team_filters'[t]) :
                       GamesFor(q, game_ctx, t) = team_stats'[t][1].games ]_vars

\* C3 as amended: compute_stats applies the filters in non-decreasing phase
\* order and the game list is the same for every insertion order of the same
\* filters that keeps the game-count (LIMIT) filters in the same relative
\* order; of several AnlyFilterGames the one added last sets the limit.
C3_SameLimitOrder ==
    [][ \A t \in DOMAIN team_stats :
            Computes(t) =>
                /\ PhaseSorted(team_filters'[t])
                /\ \A q \in InsertionOrders(team_filters'[t]) :
                       LimitsOf(q) = LimitsOf(team_filters'[t]) =>
                           GamesFor(q, game_ctx, t) = team_stats'[t][1].games ]_vars

\* stats were computed through a limit that cut the list, with a restriction
\* the caller added after the limit
C3_Witness ==
    \E t \in DOMAIN team_stats :
        /\ team_stats[t] # <<>>
        /\ \E i \in 1 .. Len(team_filters[t]) :
               /\ team_filters[t][i].cls = "AnlyFilterGames"
               /\ Len(StatsOf(t).games) = team_filters[t][i].n
        /\ \E i \in 1 .. Len(team_filters[t]) :
               team_filters[t][i].cls = "AnlyFilterSeasons"
        /\ anly_last.op = "get_stats"
        /\ n_adds = MaxAdds

\* C4: every game of get_stats(team).games has that team as its home or its
\* away team, whatever filters the caller added (none, or a per-team map
\* that covers only the other team, included).
C4_TeamScope ==
    \A t \in DOMAIN team_stats :
        team_stats[t] # <<>> =>
            \A i \in 1 .. Len(StatsOf(t).games) : Involves(StatsOf(t).games[i], t)

\* stats with games for a team whose only team-scope filter is the injected
\* self filter, while the other team carries an opponent or division filter
C4_Witness ==
    \E t \in DOMAIN team_stats : \E u \in DOMAIN team_stats \ {t} :
        /\ team_stats[t] # <<>>
        /\ StatsOf(t).games # <<>>
        /\ \A i \in 1 .. Len(team_filters[t]) :
               team_filters[t][i].cls \in TEAM_SCOPE_FILTERS =>
                   team_filters[t][i] = AnlyFilterSelf
        /\ \E i \in 1 .. Len(team_filters[u]) :
               team_filters[u][i].cls \in {"AnlyFilterTeam", "AnlyFilterDiv"}

\* C5: once get_stats has returned the stats of a team, a later get_stats for
\* that team returns the same value and runs no query, also when the game
\* list is empty and whatever is called for the other team in between.
C5_CachedStats ==
    [][ \A t \in DOMAIN team_stats :
            team_stats[t] # <<>> =>
                /\ team_stats'[t] = team_stats[t]
                /\ (anly_last'.op = "get_stats" /\ anly_last'.team = t) =>
                       n_queries' = n_queries ]_vars

\* a repeated get_stats answered from the cache for a team whose game list is
\* empty, after the stats of the other team were computed
C5_Witness ==
    /\ anly_last.op = "get_stats"
    /\ anly_last.cached
    /\ team_stats[anly_last.team] # <<>>
    /\ StatsOf(anly_last.team).games = <<>>
    /\ \A t \in DOMAIN team_stats : team_stats[t] # <<>>

---------------------------------------------------------------------------
(* Properties of the scoring engine *)

Scored == sc_scores # <<>>

SuResult  == sc_scores[1][1]
AtsResult == sc_scores[1][2]

SuWin  == Score(1, 0, 0)
SuLoss == Score(0, 1, 0)
SuTie  == Score(0, 0, 1)

\* C6: for a game with a recorded winner compute_scores returns an SU score
\* with exactly one of wins, losses, ties equal to 1 and the others 0, for
\* any su_winner and any integer pts_margin; for a game without a recorded
\* winner both scores are all-zero.
C6_ExactlyOneOutcome ==
    Scored =>
        IF sc_game.winner # NoTeam
        THEN SuResult \in {SuWin, SuLoss, SuTie}
        ELSE SuResult = EmptyScore /\ AtsResult = EmptyScore

\* C7: on a played game the ATS score is non-empty exactly when the game has
\* a point spread (0.0 included) and the pick names an ats_winner: a tie on
\* a push, a win when the pick names the game's ats_winner, a loss otherwise.
C7_AtsScoredWithAnySpread ==
    (Scored /\ sc_game.winner # NoTeam) =>
        AtsResult =
            IF sc_game.pt_spread # <<>> /\ sc_pick.ats_winner # NoTeam
            THEN IF ats_winner(sc_game) = NoTeam THEN SuTie
                 ELSE IF sc_pick.ats_winner = ats_winner(sc_game) THEN SuWin
                 ELSE SuLoss
            ELSE EmptyScore

\* C8 as stated: every pick with pts_margin 0 on a played game scores an SU
\* loss, and an SU win needs su_winner equal to the winner and a positive
\* margin.
C8_ZeroMarginLoses ==
    (Scored /\ sc_game.winner # NoTeam) =>
        /\ sc_pick.pts_margin = 0 => SuResult = SuLoss
        /\ SuResult = SuWin =>
               sc_pick.su_winner = sc_game.winner /\ sc_pick.pts_margin > 0

\* C8 as amended: every pick with pts_margin 0 on a played game that is not
\* a tie scores an SU loss (on a tied game it scores an SU tie, as every pick
\* does), and an SU win needs su_winner equal to the winner and a positive
\* margin.
C8_ZeroMarginLosesUntied ==
    (Scored /\ sc_game.winner # NoTeam) =>
        /\ sc_pick.pts_margin = 0 =>
               SuResult = IF sc_game.is_tie = <<TRUE>> THEN SuTie ELSE SuLoss
        /\ SuResult = SuWin =>
               sc_pick.su_winner = sc_game.winner /\ sc_pick.pts_margin > 0

\* a zero-margin pick of the actual winner of an untied game was scored
C8_Witness ==
    /\ Scored
    /\ sc_game.winner # NoTeam
    /\ sc_game.is_tie = <<FALSE>>
    /\ sc_pick.su_winner = sc_game.winner
    /\ sc_pick.pts_margin = 0
    /\ SuResult = SuLoss


---------------------------------------------------------------------------
(* Pool: run and compute_results *)

Last(s) == s[Len(s)]

\* the step is a call of run() whose query matched no game
RunMatchedNothing ==
    /\ Len(pool_log') = Len(pool_log) + 1
    /\ Last(pool_log').op = "run"
    /\ Last(pool_log').matched = 0

\* C9: a call of Pool.run whose season and weeks match zero games raises
\* RuntimeError and leaves every score structure as it was, whatever calls
\* were made on the pool before.
C9_NoGamesRaises ==
    [][RunMatchedNothing =>
          /\ Last(pool_log').exc = "RuntimeError"
          /\ UNCHANGED <<week_scores, swami_scores, tot_scores>>]_vars

\* the games tabulated are all played and none is a tie
AllDecided ==
    \A id \in DOMAIN game_picks.val :
        Game(id).winner # NoTeam /\ Game(id).is_tie = <<FALSE>>

\* the pool's user called run() once with success, then compute_results()
RunThenComputeResults ==
    /\ Len(pool_log) = 2
    /\ pool_log[1].op = "run" /\ pool_log[1].exc = "none"
    /\ pool_log[2].op = "compute_results"

\* C10: with S1 picking every actual winner (margin above zero) and S2
\* every actual loser over n played, untied games, after run() and then
\* compute_results() the total SU score of S1 is (n, 0, 0) and the SU
\* winner is exactly [S1].
C10_AllWinnersAfterRecompute ==
    (/\ RunThenComputeResults
     /\ AllDecided
     /\ swami_kind = [s \in {"S1", "S2"} |->
                         IF s = "S1" THEN "winners" ELSE "losers"])
    => /\ ScoreAt(tot_scores.val["S1"], SU) = Score(Len(game_picks.keys), 0, 0)
       /\ get_winner(SU, tot_scores) = [exc |-> "none", winner |-> <<"S1">>]

---------------------------------------------------------------------------
(* Pool: a swami without a pick for a game *)

SwamiSet == {Swamis[i] : i \in DOMAIN Swamis}

\* the roster without swami d
Without(roster, d) == SelectSeq(roster, LAMBDA s : s # d)

\* the tabulation a new pool of the given roster holds after the calls of log
RECURSIVE Replay(_, _, _)
Replay(log, of_season, roster) ==
    IF log = <<>> THEN EmptyTab
    ELSE LET before == Replay(SubSeq(log, 1, Len(log) - 1), of_season, roster)
             call   == log[Len(log)]
         IN  IF call.op = "run"
             THEN TabRun(before, of_season, call.weeks, roster).tab
             ELSE TabResults(before)

\* everything a tabulation holds about the scores of swami s
ScoresOf(tab, s) ==
    [tot  |-> IF HasKey(tab.tot_scores, s)
              THEN <<tab.tot_scores.val[s]>> ELSE <<>>,
     mine |-> IF HasKey(tab.swami_scores, s)
              THEN <<tab.swami_scores.val[s].val>> ELSE <<>>,
     week |-> [w \in DOMAIN tab.week_scores.val |->
                  IF HasKey(tab.week_scores.val[w], s)
                  THEN <<tab.week_scores.val[w].val[s]>> ELSE <<>>]]

\* swami d has no pick for game id
Declined(d, id) == get_pick(d, id) = <<>>

\* swami d has no pick for a game the pool has tabulated
Declines(d) == \E id \in DOMAIN game_picks.val : Declined(d, id)

\* the (game, swami) pair is in neither game_picks nor week_picks
AbsentPick(d, id) ==
    /\ ~HasKey(game_picks.val[id], d)
    /\ LET wp == week_picks.val[Game(id).week]
       IN  HasKey(wp, d) => ~HasKey(wp.val[d], id)

\* the scores of the picks swami d has for the games of ids
RECURSIVE PickedSum(_, _)
PickedSum(d, ids) ==
    IF ids = <<>> THEN init_scores
    ELSE IF Declined(d, Head(ids)) THEN PickedSum(d, Tail(ids))
    ELSE AddScores(PickedSum(d, Tail(ids)),
                   compute_scores(Game(Head(ids)), get_pick(d, Head(ids))[1]))

\* the only call made on the pool is a run() that tabulated games
FirstRun ==
    /\ Len(pool_log) = 1
    /\ pool_log[1].op = "run" /\ pool_log[1].exc = "none"

\* the scores of d come from the games d has a pick for, and from no other
OwnPicksOnly(d) ==
    /\ \A w \in DOMAIN week_games.val :
          IF \A i \in DOMAIN week_games.val[w] : Declined(d, week_games.val[w][i])
          THEN ~HasKey(week_scores.val[w], d)
          ELSE week_scores.val[w].val[d] = PickedSum(d, week_games.val[w])
    /\ IF \A id \in DOMAIN game_picks.val : Declined(d, id)
       THEN ~HasKey(tot_scores, d)
       ELSE tot_scores.val[d] = PickedSum(d, game_picks.keys)

\* C11: a swami without a pick for a game does not make run() fail; the
\* (game, swami) pair is absent from game_picks and week_picks, the game
\* adds nothing to that swami's week and season scores, and every other
\* swami has the scores it has in a pool whose roster lacks that swami.
C11_DeclineSkips ==
    /\ \A i \in DOMAIN pool_log :
          (pool_log[i].op = "run" /\ pool_log[i].matched > 0)
              => pool_log[i].exc = "none"
    /\ \A d \in SwamiSet : \A id \in DOMAIN game_picks.val :
          Declined(d, id) => AbsentPick(d, id)
    /\ \A d \in SwamiSet : Declines(d) =>
          /\ \A s \in SwamiSet \ {d} :
                ScoresOf(Tab, s) =
                ScoresOf(Replay(pool_log, pool_season, Without(Swamis, d)), s)
          /\ FirstRun => OwnPicksOnly(d)

\* the first swami of the roster has no pick for a tabulated game the
\* second swami is scored on, and is scored itself in the week of that game
C11_Witness ==
    \E id \in DOMAIN game_picks.val :
        /\ Declined(Swamis[1], id)
        /\ HasKey(game_picks.val[id], Swamis[2])
        /\ HasKey(tot_scores, Swamis[2])
        /\ HasKey(week_scores, Game(id).week)
        /\ HasKey(week_scores.val[Game(id).week], Swamis[1])

---------------------------------------------------------------------------
(* Pool: outcomes counted per scope *)

\* wins + losses + ties of a score
Outcomes(score) == score[1] + score[2] + score[3]

\* the scores a dict holds for key k, the initial scores if it has none
ScoresAt(d, k) == IF HasKey(d, k) THEN d.val[k] ELSE init_scores

\* swami s has a pick on game id, and the game has a recorded winner
SuEligible(s, id) == ~Declined(s, id) /\ Game(id).winner # NoTeam

\* swami s has a pick naming an ats_winner on game id, and the game is
\* played and carries a point spread
AtsEligible(s, id) ==
    /\ ~Declined(s, id)
    /\ get_pick(s, id)[1].ats_winner # NoTeam
    /\ Game(id).winner # NoTeam
    /\ Game(id).pt_spread # <<>>

\* the scores count one SU outcome per SU-eligible pick of s among ids,
\* and one ATS outcome per ATS-eligible pick
CountsPicks(scores, s, ids) ==
    /\ Outcomes(ScoreAt(scores, SU)) =
          Cardinality({id \in ids : SuEligible(s, id)})
    /\ Outcomes(ScoreAt(scores, ATS)) =
          Cardinality({id \in ids : AtsEligible(s, id)})

\* C12: after run() on a new pool, for every swami and every scope (each
\* week and the season), SU wins + losses + ties is the number of the
\* swami's picks on games with a recorded winner in the scope, and ATS
\* wins + losses + ties the number of its picks naming an ats_winner on
\* played games of the scope that carry a point spread.
C12_OutcomesCountPicks ==
    FirstRun =>
        \A s \in SwamiSet :
            /\ \A w \in DOMAIN week_games.val :
                  CountsPicks(ScoresAt(week_scores.val[w], s), s,
                              {week_games.val[w][i] :
                                  i \in DOMAIN week_games.val[w]})
            /\ CountsPicks(ScoresAt(tot_scores, s), s, DOMAIN game_picks.val)

---------------------------------------------------------------------------
(* Pool: the winner of a sub-pool *)

\* the elements of a sequence
Range(seq) == {seq[i] : i \in DOMAIN seq}

\* the greatest win count of the scored swamis, in dimension score_idx
MaxWins(score_idx) ==
    Max({WinsOf(score_idx, tot_scores, s) : s \in DOMAIN tot_scores.val})

\* the scored swamis whose wins are the greatest win count
Leaders(score_idx) ==
    {s \in DOMAIN tot_scores.val :
        WinsOf(score_idx, tot_scores, s) = MaxWins(score_idx)}

\* C13: with results computed, get_winner of the SU and of the ATS
\* dimension returns exactly the swamis whose win count is the greatest
\* over all scored swamis, each once, if that count is above 0, and a
\* single None if it is 0.
C13_WinnersAreLeaders ==
    tot_scores.keys # <<>> =>
        \A score_idx \in {SU, ATS} :
            LET res == get_winner(score_idx, tot_scores)
            IN  /\ res.exc = "none"
                /\ IF MaxWins(score_idx) > 0
                   THEN /\ Range(res.winner) = Leaders(score_idx)
                        /\ Len(res.winner) = Cardinality(Leaders(score_idx))
                   ELSE res.winner = <<NoTeam>>

\* the swami scored first has fewer SU wins than the one scored second,
\* who alone is the SU winner
C13_Witness ==
    /\ tot_scores.keys = Swamis
    /\ WinsOf(SU, tot_scores, Swamis[1]) < WinsOf(SU, tot_scores, Swamis[2])
    /\ get_winner(SU, tot_scores).winner = <<Swamis[2]>>

---------------------------------------------------------------------------
(* Pool: the three score structures *)

\* the (week, swami) pairs of week_scores and of swami_scores
WeekSwamiPairs ==
    UNION {{<<w, s>> : s \in DOMAIN week_scores.val[w].val} :
              w \in DOMAIN week_scores.val}

SwamiWeekPairs ==
    UNION {{<<w, s>> : w \in DOMAIN swami_scores.val[s].val} :
              s \in DOMAIN swami_scores.val}

\* the pointwise sum of the scores d holds for the keys of the sequence
RECURSIVE SumScores(_, _)
SumScores(d, keys) ==
    IF keys = <<>> THEN init_scores
    ELSE <<ScoreSum(ScoreAt(SumScores(d, Tail(keys)), SU),
                    ScoreAt(d.val[Head(keys)], SU)),
           ScoreSum(ScoreAt(SumScores(d, Tail(keys)), ATS),
                    ScoreAt(d.val[Head(keys)], ATS))>>

\* C14: after any calls of run() and compute_results(), week_scores[w][s]
\* equals swami_scores[s][w] in SU and ATS for every week w and swami s,
\* both maps hold the same (week, swami) pairs, and tot_scores[s] is the
\* pointwise sum of swami_scores[s][w] over all weeks w.
C14_ScoresAgree ==
    /\ WeekSwamiPairs = SwamiWeekPairs
    /\ \A p \in WeekSwamiPairs :
          week_scores.val[p[1]].val[p[2]] = swami_scores.val[p[2]].val[p[1]]
    /\ DOMAIN tot_scores.val = DOMAIN swami_scores.val
    /\ \A s \in DOMAIN tot_scores.val :
          tot_scores.val[s] =
              SumScores(swami_scores.val[s], swami_scores.val[s].keys)

\* results were computed more than once, for a swami scored in two weeks,
\* the other swami in one of them only
C14_Witness ==
    /\ Len(pool_log) >= 2
    /\ \E s \in DOMAIN swami_scores.val, t \in DOMAIN swami_scores.val :
          /\ Len(swami_scores.val[s].keys) = 2
          /\ Len(swami_scores.val[t].keys) = 1
          /\ Outcomes(ScoreAt(tot_scores.val[s], ATS)) > 0

---------------------------------------------------------------------------
(* Analysis: results of the game being picked and of later games *)

\* the outcome fields of a game row
Outcome(g) ==
    <<g.winner, g.loser, g.is_tie, g.home_pts, g.home_yds, g.home_tos,
      g.away_pts, g.away_yds, g.away_tos>>

\* the fields of a game row that are no outcome fields
Schedule(g) ==
    <<g.season, g.week, g.datetime, g.home_team, g.away_team, g.pt_spread>>

\* repositories db1 and db2 differ, and only in outcome fields of games at
\* or after the kickoff of the context game
OnlyLaterOutcomesDiffer(db1, db2) ==
    /\ db1 # db2
    /\ \A id \in GameIds :
          /\ Schedule(db1[id]) = Schedule(db2[id])
          /\ Outcome(db1[id]) # Outcome(db2[id])
                => db1[id].datetime >= db1[game_ctx].datetime

\* C15: for two repositories that differ only in the outcome fields of
\* games whose datetime is at or after that of the context game, get_info
\* of the context game is the same and the statistics compute_stats
\* yields are the same for both teams.
C15_Noninterference ==
    (repo_before # <<>> /\ OnlyLaterOutcomesDiffer(repo_before[1].db, game_db))
        => /\ get_info(game_ctx) = repo_before[1].info
           /\ \A t \in DOMAIN team_stats :
                 ComputedStats(t) = repo_before[1].stats[t]

\* the result of the context game itself was rewritten, for a context whose
\* teams both have statistics with games and filters of the caller
C15_Witness ==
    /\ repo_before # <<>>
    /\ Outcome(game_db[game_ctx]) # Outcome(repo_before[1].db[game_ctx])
    /\ n_adds > 0
    /\ \A t \in DOMAIN team_stats :
          /\ ComputedStats(t) # <<>>
          /\ ComputedStats(t)[1].games # <<>>

---------------------------------------------------------------------------
(* Pool: regular season and playoff weeks in the SU and ATS sub-pools *)

\* the sum of the win counts of the week columns of a report row
RECURSIVE SumWins(_)
SumWins(cols) ==
    IF cols = <<>> THEN 0 ELSE Head(cols)[2] + SumWins(Tail(cols))

\* the wins of swami s in the regular-season weeks, from week_scores
RECURSIVE RegularWins(_, _, _)
RegularWins(score_idx, s, weeks) ==
    IF weeks = <<>> THEN 0
    ELSE (IF Head(weeks) < WC /\ HasKey(week_scores.val[Head(weeks)], s)
          THEN ScoreAt(week_scores.val[Head(weeks)].val[s], score_idx)[1]
          ELSE 0)
         + RegularWins(score_idx, s, Tail(weeks))

\* the scored swamis with the most regular-season wins
RegularLeaders(score_idx) ==
    {s \in DOMAIN tot_scores.val :
        \A t \in DOMAIN tot_scores.val :
            RegularWins(score_idx, t, week_scores.keys)
                <= RegularWins(score_idx, s, week_scores.keys)}

\* C16: in the SU and ATS sub-pools the Total of every season report row
\* is the sum of the per-week win counts of that row, and get_winner
\* ranks the swamis by their wins in the weeks below 100 only, also when
\* the pool was run over playoff weeks.
C16_RegularSeasonOnly ==
    tot_scores.keys # <<>> =>
        \A score_idx \in {SU, ATS} :
            /\ \A i \in DOMAIN season_report_iter(score_idx) :
                  season_report_iter(score_idx)[i].total =
                      SumWins(season_report_iter(score_idx)[i].wins)
            /\ LET res == get_winner(score_idx, tot_scores).winner
               IN  IF \E s \in RegularLeaders(score_idx) :
                          RegularWins(score_idx, s, week_scores.keys) > 0
                   THEN Range(res) = RegularLeaders(score_idx)
                   ELSE res = <<NoTeam>>

---------------------------------------------------------------------------
(* Analysis: the game-count filter *)

\* game id passes restriction filter f of team t
Passes(f, t, id) ==
    Holds(Apply(f, game_ctx, t, EmptyQuery).where[1], Game(id))

\* the games that satisfy every restriction filter of team t and precede
\* the context game
Candidates(t) ==
    {id \in GameIds :
        /\ Game(id).datetime < Game(game_ctx).datetime
        /\ \A i \in 1 .. Len(team_filters[t]) :
              FilterTypeOf(team_filters[t][i]) = WHERE
                  => Passes(team_filters[t][i], t, id)}

\* the n candidates with the latest datetimes (all of them if fewer)
LatestOf(t, n) ==
    {id \in Candidates(t) :
        Cardinality({j \in Candidates(t) :
                        Game(j).datetime > Game(id).datetime}) < n}

\* the list holds exactly the n latest candidates, latest first
HoldsLatest(games, t, n) ==
    /\ Range(games) = LatestOf(t, n)
    /\ \A i \in 1 .. Len(games) - 1 :
          Game(games[i]).datetime > Game(games[i + 1]).datetime

\* the positions of the game-count filters in the list of team t
LimitIdx(t) ==
    {i \in 1 .. Len(team_filters[t]) :
        team_filters[t][i].cls = "AnlyFilterGames"}

\* C17 as stated: with an AnlyFilterGames(N) attached, get_stats(team).games
\* holds the N latest games among those that satisfy the team's
\* restriction filters and precede the context game (all if fewer), in
\* reverse chronological order.
C17_LatestGames ==
    \A t \in DOMAIN team_stats :
        team_stats[t] # <<>> =>
            \A i \in LimitIdx(t) :
                HoldsLatest(StatsOf(t).games, t, team_filters[t][i].n)

\* C17 as amended: get_stats(team).games holds the N latest such games,
\* in reverse chronological order, for the N of the AnlyFilterGames that
\* was added last to the team.
C17_LatestGamesOfLastLimit ==
    \A t \in DOMAIN team_stats :
        (team_stats[t] # <<>> /\ LimitIdx(t) # {}) =>
            HoldsLatest(StatsOf(t).games, t,
                        team_filters[t][Max(LimitIdx(t))].n)

\* statistics computed for a team with two game-count filters of
\* different N, the later one cutting the list of candidates
C17_Witness ==
    \E t \in DOMAIN team_stats :
        /\ team_stats[t] # <<>>
        /\ Cardinality(LimitIdx(t)) = 2
        /\ \E i \in LimitIdx(t) :
              team_filters[t][i].n # team_filters[t][Max(LimitIdx(t))].n
        /\ Len(StatsOf(t).games) = team_filters[t][Max(LimitIdx(t))].n
        /\ Cardinality(Candidates(t)) > Len(StatsOf(t).games)

---------------------------------------------------------------------------
(* Analysis: the season-count filter *)

\* the positions of the season-count filters in the list of team t
SeasonsIdx(t) ==
    {i \in 1 .. Len(team_filters[t]) :
        team_filters[t][i].cls = "AnlyFilterSeasons"}

\* season s is one of the n seasons that end with the season of the
\* context game
InSeasons(s, n) ==
    Game(game_ctx).season - n + 1 <= s /\ s <= Game(game_ctx).season

\* C18: a game passes AnlyFilterSeasons(N) in a context of season Y if and
\* only if its season s satisfies Y-N+1 <= s <= Y, Y being the season of
\* the context game; the games of the statistics are such games.
C18_SeasonsRange ==
    \A t \in DOMAIN team_stats : \A i \in SeasonsIdx(t) :
        /\ \A id \in GameIds :
              Passes(team_filters[t][i], t, id)
                  <=> InSeasons(Game(id).season, team_filters[t][i].n)
        /\ team_stats[t] # <<>> =>
              \A k \in 1 .. Len(StatsOf(t).games) :
                  InSeasons(Game(StatsOf(t).games[k]).season,
                            team_filters[t][i].n)

\* statistics with games computed through a season-count filter that
\* kept out an earlier game of the team from a season before the range
C18_Witness ==
    \E t \in DOMAIN team_stats : \E i \in SeasonsIdx(t) :
        /\ team_stats[t] # <<>>
        /\ StatsOf(t).games # <<>>
        /\ \E id \in GameIds :
              /\ Involves(id, t)
              /\ Game(id).datetime < Game(game_ctx).datetime
              /\ ~InSeasons(Game(id).season, team_filters[t][i].n)

---------------------------------------------------------------------------
(* Games: the properties against the spread *)

\* home_pts + pt_spread - away_pts of a played game with a spread, in half
\* points
SpreadMargin(g) == 2 * g.home_pts[1] + g.pt_spread[1] - 2 * g.away_pts[1]

\* C19: for a played game with a point spread ats_winner is the home team
\* when home_pts + pt_spread - away_pts > 0, the away team when it is < 0
\* and null when it is 0; ats_loser is the other team (null on a push,
\* never the ats_winner); away_vs_spread is the negation of
\* home_vs_spread; a straight-up tie with spread -3 has the away team as
\* ATS winner.  With a null spread the four of them are null.
C19_AgainstTheSpread ==
    sc_game.winner # NoTeam =>
        IF sc_game.pt_spread = <<>>
        THEN /\ ats_winner(sc_game) = NoTeam
             /\ ats_loser(sc_game) = NoTeam
             /\ home_vs_spread(sc_game) = <<>>
             /\ away_vs_spread(sc_game) = <<>>
        ELSE /\ SpreadMargin(sc_game) > 0 =>
                    /\ ats_winner(sc_game) = sc_game.home_team
                    /\ ats_loser(sc_game) = sc_game.away_team
             /\ SpreadMargin(sc_game) < 0 =>
                    /\ ats_winner(sc_game) = sc_game.away_team
                    /\ ats_loser(sc_game) = sc_game.home_team
             /\ SpreadMargin(sc_game) = 0 =>
                    /\ ats_winner(sc_game) = NoTeam
                    /\ ats_loser(sc_game) = NoTeam
             /\ ats_winner(sc_game) # NoTeam =>
                    ats_loser(sc_game) # ats_winner(sc_game)
             /\ home_vs_spread(sc_game) = <<SpreadMargin(sc_game)>>
             /\ away_vs_spread(sc_game) = <<-SpreadMargin(sc_game)>>
             /\ (sc_game.is_tie = <<TRUE>> /\ sc_game.pt_spread = <<-6>>) =>
                    ats_winner(sc_game) = sc_game.away_team

\* a scored game that ended in a straight-up tie with the home team
\* favored by 3: the away team is the winner against the spread
C19_Witness ==
    /\ sc_scores # <<>>
    /\ sc_game.winner # NoTeam
    /\ sc_game.is_tie = <<TRUE>>
    /\ sc_game.pt_spread = <<-6>>
    /\ ats_winner(sc_game) = sc_game.away_team
    /\ ats_loser(sc_game) = sc_game.home_team

---------------------------------------------------------------------------
(* Swami: the pick of a data-driven swami *)

\* the pick holds what the row holds, with the ATS part as stored or
\* cleared
DerivedFrom(pick, row) ==
    /\ pick.su_winner = row.su_winner
    /\ pick.pts_margin = row.pts_margin
    /\ pick.total_pts = row.total_pts
    /\ pick.ats_winner \in {row.ats_winner, NoTeam}

\* the pick derives from a stored row of the swami and the game with the
\* greatest pick_ts
FromLatest(pick, id) ==
    \E i \in LatestRows(GameRows(id)) : DerivedFrom(pick, swami_pick[i])

\* C20: the pick a data-driven swami returns for a game is always derived
\* from the stored SwamiPick with the greatest pick_ts for that swami and
\* game, and is None when there is no such record, for a direct get_pick
\* and for the picks cached by process_week, which keeps one pick per
\* game of the week.
C20_LatestStoredPick ==
    /\ swami_ret.op \in {"get_pick", "ext_data_get_pick"} =>
          IF GameRows(swami_ret.game) = {} THEN swami_ret.pick = <<>>
          ELSE /\ swami_ret.pick # <<>>
               /\ FromLatest(swami_ret.pick[1], swami_ret.game)
    /\ \A id \in DOMAIN game_pick.val : FromLatest(game_pick.val[id], id)
    /\ \A i, j \in DOMAIN game_pick.keys :
          i # j => game_pick.keys[i] # game_pick.keys[j]
    /\ (swami_ret.op = "process_week" /\ swami_ret.exc = "") =>
          \A i \in WeekRows(swami_ret.season, swami_ret.week) :
              HasKey(game_pick, swami_pick[i].game)

---------------------------------------------------------------------------
(* Cyber swamis: the pick against the spread *)

\* the swami's own home-perspective spread times its denominator, in half
\* points: minus the favoured home team's average margin, or the favoured
\* away team's
OwnSpreadAbove(ret, id) ==
    LET home_fav == ret.winner = Game(id).home_team
        stats(t) == CyberStats(cy_swami, id, t)
        m == IF home_fav THEN StatValue(stats(Game(id).home_team), "pts")
             ELSE StatValue(stats(Game(id).away_team), "pts")
    IN  IF home_fav THEN -2 * m[1] > Game(id).pt_spread[1] * m[2]
        ELSE 2 * m[1] > Game(id).pt_spread[1] * m[2]

\* C21: for a game whose pt_spread is null cyber_pick returns a Pick with
\* a null ats_winner (su_winner, a margin of at least 1 and total points
\* populated) instead of raising; for a non-null spread the ats_winner is
\* the away team when the swami's own home-perspective spread is greater
\* than the game's spread, else the home team.
C21_CyberPickAts ==
    (/\ cy_ret # <<>>
     /\ ~cy_swami.consider_venue
     /\ cy_ret[1].line \notin {75, 76}) =>
        /\ cy_ret[1].exc = ""
        /\ cy_ret[1].pick # <<>>
        /\ cy_ret[1].pick[1].su_winner \in CtxTeams(cy_game)
        /\ cy_ret[1].pick[1].pts_margin >= 1
        /\ IF Game(cy_game).pt_spread = <<>>
           THEN cy_ret[1].pick[1].ats_winner = NoTeam
           ELSE cy_ret[1].pick[1].ats_winner =
                   IF OwnSpreadAbove(cy_ret[1], cy_game)
                   THEN Game(cy_game).away_team
                   ELSE Game(cy_game).home_team

---------------------------------------------------------------------------
(* Analysis: the lists and totals of the statistics *)

\* how many of the lists wins, losses and ties hold game id
TimesListed(stats, id) ==
    Cardinality({i \in DOMAIN stats.wins : stats.wins[i] = id}) +
    Cardinality({i \in DOMAIN stats.losses : stats.losses[i] = id}) +
    Cardinality({i \in DOMAIN stats.ties : stats.ties[i] = id})

\* C22: in every AnlyStats of compute_stats the lists wins, losses and
\* ties partition games: a game of games is in exactly one of them, in
\* ties when it is a tie, in wins when the analyzed team is the recorded
\* winner, in losses otherwise; so the three counts add up to num_games,
\* and ats_wins is a subset of games.
C22_ResultsPartition ==
    \A t \in DOMAIN team_stats :
        team_stats[t] # <<>> =>
            LET stats == StatsOf(t)
            IN  /\ \A id \in Range(stats.wins) \cup Range(stats.losses) \cup
                             Range(stats.ties) \cup Range(stats.ats_wins) :
                       id \in Range(stats.games)
                /\ \A id \in Range(stats.games) :
                       /\ TimesListed(stats, id) = 1
                       /\ id \in Range(stats.ties) <=>
                              Game(id).is_tie = <<TRUE>>
                       /\ id \in Range(stats.wins) <=>
                              /\ Game(id).is_tie # <<TRUE>>
                              /\ Game(id).winner = t
                /\ Len(stats.wins) + Len(stats.losses) + Len(stats.ties)
                       = Len(stats.games)

\* statistics that hold a tie whose recorded winner is the analyzed team,
\* next to a win
C22_Witness ==
    \E t \in DOMAIN team_stats :
        /\ team_stats[t] # <<>>
        /\ StatsOf(t).wins # <<>>
        /\ \E id \in Range(StatsOf(t).ties) : Game(id).winner = t

\* C23: a game of the result list is in ats_wins for the analyzed team if
\* and only if Game.ats_winner of the game is that team: games with a null
\* spread and pushes are never counted, pick'em games are counted when
\* the team won on points, and no game is an ATS win for both of its teams.
C23_AtsWinsAreAtsWinner ==
    /\ \A t \in DOMAIN team_stats :
          team_stats[t] # <<>> =>
              \A id \in Range(StatsOf(t).games) :
                  /\ id \in Range(StatsOf(t).ats_wins) <=>
                         ats_winner(Game(id)) = t
                  /\ Game(id).pt_spread = <<>> =>
                         id \notin Range(StatsOf(t).ats_wins)
                  /\ (Game(id).pt_spread # <<>> /\ home_vs_spread(Game(id)) = <<0>>)
                         => id \notin Range(StatsOf(t).ats_wins)
                  /\ (Game(id).pt_spread = <<0>> /\ Game(id).is_tie # <<TRUE>>
                         /\ Game(id).winner = t)
                         => id \in Range(StatsOf(t).ats_wins)
    /\ \A t, u \in DOMAIN team_stats :
          (t # u /\ team_stats[t] # <<>> /\ team_stats[u] # <<>>) =>
              Range(StatsOf(t).ats_wins) \cap Range(StatsOf(u).ats_wins) = {}

\* both teams' statistics hold a pick'em game they played against each
\* other, an ATS win for the one that won it on points only
C23_Witness ==
    \E t, u \in DOMAIN team_stats :
        /\ t # u /\ team_stats[t] # <<>> /\ team_stats[u] # <<>>
        /\ \E id \in Range(StatsOf(t).games) \cap Range(StatsOf(u).games) :
              /\ Game(id).pt_spread = <<0>>
              /\ id \in Range(StatsOf(t).ats_wins)
              /\ id \notin Range(StatsOf(u).ats_wins)

\* what game id adds to the totals of team t, for its own side or for the
\* opponent's
SideValue(id, t, own, what) ==
    LET home == (Game(id).home_team = t) = own
    IN  CASE what = "pts" -> IF home THEN Game(id).home_pts[1] ELSE Game(id).away_pts[1]
          [] what = "yds" -> IF home THEN Game(id).home_yds[1] ELSE Game(id).away_yds[1]
          [] what = "tos" -> IF home THEN Game(id).home_tos[1] ELSE Game(id).away_tos[1]

RECURSIVE ExactSum(_, _, _, _)
ExactSum(games, t, own, what) ==
    IF games = <<>> THEN 0
    ELSE SideValue(Head(games), t, own, what) +
         ExactSum(Tail(games), t, own, what)

\* C24: for every result list and all integer per-game values (zeros and
\* negative yardage included) pts_for, yds_for and tos_for are the exact
\* sums over the games of the analyzed team's own points, yards and
\* turnovers, and pts_against, yds_against and tos_against the exact sums
\* of the opponent's.
C24_ExactTotals ==
    \A t \in DOMAIN team_stats :
        team_stats[t] # <<>> =>
            LET stats == StatsOf(t)
            IN  /\ stats.pts_for = ExactSum(stats.games, t, TRUE, "pts")
                /\ stats.yds_for = ExactSum(stats.games, t, TRUE, "yds")
                /\ stats.tos_for = ExactSum(stats.games, t, TRUE, "tos")
                /\ stats.pts_against = ExactSum(stats.games, t, FALSE, "pts")
                /\ stats.yds_against = ExactSum(stats.games, t, FALSE, "yds")
                /\ stats.tos_against = ExactSum(stats.games, t, FALSE, "tos")

---------------------------------------------------------------------------
(* Swami: the picks process_week keeps against the spread *)

\* how many rows of the set carry a greater confidence than row i
HigherConf(rows, i) ==
    Cardinality({j \in rows :
        ConfOrZero(swami_pick[j]) > ConfOrZero(swami_pick[i])})

\* the cached pick of row i's game keeps the straight-up part of the row,
\* and its ATS part unless ats_min_picks rows or more are more confident
KeptByConfidence(rows, i) ==
    LET row  == swami_pick[i]
        pick == game_pick.val[row.game]
    IN  /\ HasKey(game_pick, row.game)
        /\ pick.su_winner = row.su_winner
        /\ pick.pts_margin = row.pts_margin
        /\ pick.total_pts = row.total_pts
        /\ pick.ats_winner = IF HigherConf(rows, i) >= ats_min_picks
                             THEN NoTeam ELSE row.ats_winner

\* C25: process_week eliminates the lowest-confidence picks: among the
\* swami's latest picks for the week the ATS part is retained for the
\* ats_min_picks (5) picks of highest ats_conf and for the picks tied in
\* confidence with the lowest retained one, and is cleared only on picks
\* of lower confidence; the straight-up part of every pick is kept.
C25_KeepsMostConfident ==
    (swami_ret.op = "process_week" /\ swami_ret.exc = "") =>
        \E local \in LocalPicks(WeekRows(swami_ret.season, swami_ret.week)) :
            \A i \in local : KeptByConfidence(local, i)

\* a week of six picks processed: the ATS part of the least confident one
\* is cleared and that of the most confident one is kept
C25_Witness ==
    /\ swami_ret.op = "process_week" /\ swami_ret.exc = ""
    /\ \E local \in LocalPicks(WeekRows(swami_ret.season, swami_ret.week)) :
          /\ \A i \in local : KeptByConfidence(local, i)
          /\ \E i, j \in local :
                /\ HigherConf(local, i) >= ats_min_picks
                /\ swami_pick[i].ats_winner # NoTeam
                /\ game_pick.val[swami_pick[i].game].ats_winner = NoTeam
                /\ HigherConf(local, j) = 0
                /\ game_pick.val[swami_pick[j].game].ats_winner # NoTeam

---------------------------------------------------------------------------
(* C26: add_filter and add_team_filter that raise *)

\* the step is a call of add_filter or add_team_filter that raised
\* LogicError
AddRaised ==
    /\ n_adds' = n_adds + 1
    /\ anly_last'.op \in {"add_filter", "add_team_filter"}
    /\ anly_last'.exc = "LogicError"

\* C26: whenever add_filter or add_team_filter raises LogicError on a frozen
\* Analysis, the filter lists of both teams are what they were before the
\* call, also for a map that holds a framework filter for one team and
\* another filter for the other.
C26_RejectedAddChangesNothing ==
    [][AddRaised => team_filters' = team_filters]_vars

---------------------------------------------------------------------------
(* C27: run() called again with the same weeks *)

\* the step is a run(weeks) that follows a run() of the same weeks argument
\* which returned without error
RunRepeated ==
    /\ pool_log # <<>>
    /\ pool_log[Len(pool_log)].op = "run"
    /\ pool_log[Len(pool_log)].exc = "none"
    /\ Len(pool_log') = Len(pool_log) + 1
    /\ pool_log'[Len(pool_log')].op = "run"
    /\ pool_log'[Len(pool_log')].weeks = pool_log[Len(pool_log)].weeks

\* C27: a second run() on the same Pool with the same weeks argument leaves
\* week_games, game_picks, week_picks, week_scores, swami_scores and
\* tot_scores equal to their values after the first call.
C27_RunIsIdempotent ==
    [][RunRepeated =>
          /\ week_games' = week_games
          /\ game_picks' = game_picks
          /\ week_picks' = week_picks
          /\ week_scores' = week_scores
          /\ swami_scores' = swami_scores
          /\ tot_scores' = tot_scores]_vars

---------------------------------------------------------------------------
(* C28: get_winner and the runs completed *)

\* a call of run() on the pool has returned without error
RunCompleted ==
    \E i \in DOMAIN pool_log :
        pool_log[i].op = "run" /\ pool_log[i].exc = "none"

\* C28: get_winner of the SU and of the ATS sub-pool raises LogicError
\* exactly when no run() of the Pool has returned without error, also when
\* every swami declined every game or no selected game has been played.
C28_GetWinnerRaisesIffNoRun ==
    \A score_idx \in {SU, ATS} :
        get_winner(score_idx, tot_scores).exc = "LogicError" <=> ~RunCompleted

---------------------------------------------------------------------------
(* C29 and C30: the week report *)

\* the swami rows of a report: those between its first and its last row
SwamiRows(rep) == SubSeq(rep.rows, 2, Len(rep.rows) - 1)

\* the report of week w in dimension score_idx has one row for swami s; its
\* Total is the win count of week_scores[w][s], and it marks a pick with
\* '*' exactly when compute_scores scores the pick as a win
RowAgrees(score_idx, w, s) ==
    LET rep  == week_report_iter(score_idx, w)
        rows == SwamiRows(rep)
        mine == week_picks.val[w].val[s]
    IN  /\ rep.exc = "none"
        /\ Cardinality({i \in DOMAIN rows : rows[i].swami = s}) = 1
        /\ \A i \in DOMAIN rows :
              rows[i].swami = s =>
                  /\ rows[i].total =
                         ScoreAt(week_scores.val[w].val[s], score_idx)[1]
                  /\ \A id \in DOMAIN mine.val :
                        PickedTeam(score_idx, mine.val[id]) # NoTeam =>
                            /\ HasKey(rows[i].picks, matchup(id))
                            /\ (rows[i].picks.val[matchup(id)][2] = "*"
                                <=> ScoreAt(compute_scores(Game(id), mine.val[id]),
                                            score_idx)[1] = 1)

\* C29: for every week and swami scored, the Total of the swami's row of
\* the SU week report is the SU win count of week_scores[week][swami] and
\* the '*' marker is on a pick exactly when compute_scores scores it as an
\* SU win; likewise for the ATS week report and the ATS win count.
C29_ReportAgreesWithScores ==
    \A w \in DOMAIN week_scores.val :
        \A s \in DOMAIN week_scores.val[w].val :
            \A score_idx \in {SU, ATS} : RowAgrees(score_idx, w, s)

\* int() of a string of digits
RECURSIVE DigitsValue(_)
DigitsValue(s) ==
    IF s = <<>> THEN 0
    ELSE 10 * DigitsValue(SubSeq(s, 1, Len(s) - 1)) + (Ord(s[Len(s)]) - 48)

\* the number a Win % string shows
PctValue(s) ==
    IF Head(s) = "-" THEN -DigitsValue(SubSeq(s, 2, Len(s) - 1))
    ELSE DigitsValue(SubSeq(s, 1, Len(s) - 1))

\* C30: between the Winner row and the Win % row week_report_iter yields
\* the swami rows in non-increasing order of their numeric win percentage.
C30_RowsByWinPct ==
    \A w \in DOMAIN week_picks.val :
        \A score_idx \in {SU, ATS} :
            LET rep  == week_report_iter(score_idx, w)
                rows == SwamiRows(rep)
            IN  rep.exc = "none" =>
                    \A i \in DOMAIN rows : \A j \in DOMAIN rows :
                        i < j => PctValue(rows[i].win_pct)
                                     >= PctValue(rows[j].win_pct)

====
